---- MODULE Spec2Model ----
(***************************************************************************)
(* Model of the signal scanner of mentat-gui (src/signal_scanner.py):      *)
(* SignalScanner.scan_signals and the methods it calls, run on the table   *)
(* handed over by DataFetcher.fetch_all_series, and of the alignment that  *)
(* table went through (src/data_fetcher.py, DataFetcher._align_dataframe). *)
(* Around it: the centralized logger and the settings of src/config.py,    *)
(* the import of the fetchers package, the concurrent fetch of             *)
(* fetch_all_series, the retried request of BaseFetcher._make_request and  *)
(* the chunked download of BinanceFetcher._fetch_from_api, each with a     *)
(* specification of its own over its own variables.                        *)
(*                                                                         *)
(* Numbers.  The table holds integers.  A floating-point result            *)
(* (correlation, z-score, composite value) is held in fixed point, as the  *)
(* integer nearest below value * Scale.  A pandas cell is <<v>> when it    *)
(* holds the value v and << >> when it is missing (NaN).                   *)
(***************************************************************************)
EXTENDS Integers, Sequences, FiniteSets

VARIABLES
    combined,           \* fetch_all_series: `df` as pd.concat leaves it
    aligned,            \* fetch_all_series: `df` as _align_dataframe returns it
    use_numba,          \* SignalScanner.use_numba
    df,                 \* the table returned by fetch_all_series
    max_lag,            \* scan_signals: max_lag after defaults
    top_n,              \* scan_signals: top_n after defaults
    pc,                 \* position of scan_signals
    lag_profiles,       \* _calculate_correlations: `correlations` array of each pair
    correlations,       \* scan_signals: `correlations` (the population `all`)
    top_correlations,   \* scan_signals: `top_correlations` (`top`)
    composite_parts,    \* _build_composite_signal: `composite_parts`
    weights,            \* _build_composite_signal: `weights`
    composite_raw,      \* _build_composite_signal: weighted average before normalization
    composite_signal,   \* scan_signals: `composite_signal`
    results,            \* the value scan_signals returns
    script,             \* a run under the centralized logger: the levels its statements log at
    ip,                 \* the statement the run is at
    catches,            \* whether the run wraps each statement in `except Exception`
    nested_logging,     \* whether the interpreter handles a record logged inside a handler
    log_file,           \* the records the file handler has written, by level
    call_depth,         \* INSTANT_ABORT calls on the stack
    status,             \* what the process is doing
    exit_code,          \* the status the process exited with
    settings,           \* config._settings
    project_root,       \* config.PROJECT_ROOT
    environ,            \* os.environ: DB_DIR and LOG_DIR
    dirs,               \* the directories that exist, as <<root, name>>
    last_call,          \* the latest return of get_settings: the root in effect, the value
    entry,              \* the module the process imports
    import_stack,       \* the modules being executed, each with the import statement it is at
    sys_modules,        \* the modules whose execution is over
    fetcher_registry,   \* fetchers.base.fetcher_registry: its keys
    import_error,       \* the name an import statement did not find, "" when none
    series_list,        \* fetch_all_series: the configuration entries to fetch
    outcomes,           \* what fetcher.fetch does for each entry: data, no data, an exception
    completion,         \* the tasks that are over, in the order they ended
    task_results,       \* the result of each task
    series_dict,        \* fetch_all_series: `series_dict`, keys in insertion order
    fetch_pc,           \* position of fetch_all_series
    table,              \* the columns of the table fetch_all_series returns
    max_retries,        \* BaseFetcher.max_retries
    responses,          \* what each HTTP attempt of a call of _make_request meets
    attempts,           \* the HTTP attempts the call has made
    request_pc,         \* position of the call of _make_request
    end_ts,             \* _fetch_from_api: end_ts
    max_klines,         \* BinanceFetcher.max_klines
    current_start,      \* _fetch_from_api: current_start
    received,           \* the timestamps of the klines in all_klines
    twice,              \* whether a kline was put in all_klines a second time
    ascending,          \* whether every response so far listed its klines oldest first
    last_ts,            \* data[-1][0] of the latest response that had klines
    pages,              \* the requests made
    page_pc,            \* position of _fetch_from_api
    exit_reason         \* why the loop ended

scan_vars == <<combined, aligned, use_numba, df, max_lag, top_n, pc, lag_profiles, correlations,
               top_correlations, composite_parts, weights, composite_raw, composite_signal, results>>

log_vars == <<script, ip, catches, nested_logging, log_file, call_depth, status, exit_code>>

config_vars == <<settings, project_root, environ, dirs, last_call>>

import_vars == <<entry, import_stack, sys_modules, fetcher_registry, import_error>>

fetch_vars == <<series_list, outcomes, completion, task_results, series_dict, fetch_pc, table>>

request_vars == <<max_retries, responses, attempts, request_pc>>

page_vars == <<end_ts, max_klines, current_start, received, twice, ascending, last_ts, pages,
               page_pc, exit_reason>>

other_vars == <<log_vars, config_vars, import_vars, fetch_vars, request_vars, page_vars>>

vars == <<scan_vars, other_vars>>

\* no run under the centralized logger is modelled
LogIdle ==
    /\ script = << >>
    /\ ip = 1
    /\ catches = FALSE
    /\ nested_logging = TRUE
    /\ log_file = << >>
    /\ call_depth = 0
    /\ status = "running"
    /\ exit_code = 0 - 1

\* `_settings: Optional[Settings] = None`
NoSettings == [set |-> FALSE]

\* get_settings has not been called: config is not imported
ConfigIdle ==
    /\ settings = NoSettings
    /\ project_root = 1
    /\ environ = [DB_DIR |-> "database", LOG_DIR |-> "logs"]
    /\ dirs = {}
    /\ last_call = [returned |-> FALSE]

\* nothing is being imported; `fetcher_registry: Dict[str, BaseFetcher] = {}`
ImportIdle ==
    /\ entry = ""
    /\ import_stack = << >>
    /\ sys_modules = {}
    /\ fetcher_registry = {}
    /\ import_error = ""

\* fetch_all_series is not running
FetchIdle ==
    /\ series_list = << >>
    /\ outcomes = << >>
    /\ completion = << >>
    /\ task_results = << >>
    /\ series_dict = << >>
    /\ fetch_pc = "idle"
    /\ table = << >>

\* `stop=stop_after_attempt(3)` on _make_request; also the default of max_retries
StopAfterAttempt == 3

\* _make_request is not running
RequestIdle ==
    /\ max_retries = StopAfterAttempt
    /\ responses = << >>
    /\ attempts = 0
    /\ request_pc = "idle"

\* _fetch_from_api is not running
PageIdle ==
    /\ end_ts = 0
    /\ max_klines = 1
    /\ current_start = 0
    /\ received = {}
    /\ twice = FALSE
    /\ ascending = TRUE
    /\ last_ts = 0 - 1
    /\ pages = 0
    /\ page_pc = "idle"
    /\ exit_reason = ""

OthersIdle == LogIdle /\ ConfigIdle /\ ImportIdle /\ FetchIdle /\ RequestIdle /\ PageIdle

\* how a call that logs at WARNING or above under the centralized logger ends:
\* with the RecursionError of AbortOnErrorHandler and INSTANT_ABORT calling
\* each other, or with os._exit(1) where the interpreter drops the record
\* INSTANT_ABORT logs from inside the handler
AbortOutcomes == {"recursion_error", "exited"}

-----------------------------------------------------------------------------
(* Bounds of the model and constants of the program *)

\* fixed-point resolution: three decimal digits
Scale == 10 * 10 * 10

\* `if min_len < 10` in the correlators
MinPoints == 10

\* length of the arrays of test_correlate_numpy
TestLen == 5

\* rows of a table: TestLen, or MinPoints .. MinPoints + MaxExtraRows
MaxExtraRows == 1
\* max_lag ranges over 1 .. MaxLagBound
MaxLagBound == 2
\* top_n ranges over 1 .. MaxTopN
MaxTopN == 3
\* bits of the significand of a float of the numba correlator (a double has 53)
Precision == 8
\* dates by which a series repeats another one: 1 .. MaxShift
MaxShift == 3

\* Settings.max_lag: the default of max_lag
DefaultMaxLag == 5

\* rows of a table handed to _align_dataframe
MaxRawRows == 8
\* `limit=5` of the forward fill
FillCap == 5

-----------------------------------------------------------------------------
(* Arithmetic helpers *)

Abs(x) == IF x < 0 THEN -x ELSE x
Sign(x) == IF x < 0 THEN -1 ELSE IF x > 0 THEN 1 ELSE 0
Min(a, b) == IF a <= b THEN a ELSE b

RECURSIVE SumTo(_, _)
SumTo(s, k) == IF k = 0 THEN 0 ELSE s[k] + SumTo(s, k - 1)

SumSeq(s) == SumTo(s, Len(s))

RECURSIVE ISqrtIter(_, _, _)
ISqrtIter(v, lo, hi) ==
    IF lo >= hi THEN lo
    ELSE LET mid == (lo + hi + 1) \div 2
         IN  IF mid * mid <= v THEN ISqrtIter(v, mid, hi)
                               ELSE ISqrtIter(v, lo, mid - 1)

\* floor of the square root (np.sqrt on the fixed-point grid)
ISqrt(v) == ISqrtIter(v, 0, Min(v, 46340))

\* x / y on the fixed-point grid, rounded toward zero
FDiv(x, y) == Sign(x) * Sign(y) * (Abs(x) \div Abs(y))

-----------------------------------------------------------------------------
(* Binary floating point with round-to-nearest-even: the arithmetic of the    *)
(* compiled loop of _correlate_numba.  A float is m * 2^e with m = 0 or        *)
(* 2^(Precision-1) <= |m| < 2^Precision.                                       *)

RECURSIVE Pow2(_)
Pow2(k) == IF k <= 0 THEN 1 ELSE 2 * Pow2(k - 1)

\* the number of bits of a, a >= 0
RECURSIVE BitLength(_)
BitLength(a) == IF a = 0 THEN 0 ELSE 1 + BitLength(a \div 2)

Float(m, e) == [m |-> m, e |-> e]

FloatZero == Float(0, 0)

\* the float nearest to n * 2^e, ties to the even significand
FloatRound(n, e) ==
    IF n = 0 THEN FloatZero
    ELSE LET a == Abs(n)
             bits == BitLength(a)
         IN  IF bits <= Precision
             THEN Float(n * Pow2(Precision - bits), e - (Precision - bits))
             ELSE LET k == bits - Precision
                      q == a \div Pow2(k)
                      r == a % Pow2(k)
                      half == Pow2(k - 1)
                      up == r > half \/ (r = half /\ q % 2 = 1)
                      q1 == IF up THEN q + 1 ELSE q
                  IN  IF q1 = Pow2(Precision)
                      THEN Float(Sign(n) * Pow2(Precision - 1), e + k + 1)
                      ELSE Float(Sign(n) * q1, e + k)

\* an integer of the table as a float
FloatOfInt(i) == FloatRound(i, 0)

\* x + y; an operand too small to reach the significand of the other only
\* decides the rounding
FloatAdd(x, y) ==
    IF x.m = 0 THEN y
    ELSE IF y.m = 0 THEN x
    ELSE LET big == IF x.e >= y.e THEN x ELSE y
             small == IF x.e >= y.e THEN y ELSE x
             low == IF big.e - small.e > Precision + 2
                    THEN Float(Sign(small.m), big.e - Precision - 2)
                    ELSE small
         IN  FloatRound(big.m * Pow2(big.e - low.e) + low.m, low.e)

FloatSub(x, y) == FloatAdd(x, Float(-y.m, y.e))

FloatMul(x, y) == FloatRound(x.m * y.m, x.e + y.e)

\* x / y, y not zero: the quotient to Precision + 2 bits and a sticky bit
FloatDiv(x, y) ==
    LET n == Abs(x.m) * Pow2(Precision + 2)
        q == n \div Abs(y.m)
        sticky == IF n % Abs(y.m) = 0 THEN 0 ELSE 1
    IN  FloatRound(Sign(x.m) * Sign(y.m) * (2 * q + sticky),
                   x.e - y.e - (Precision + 2) - 1)

\* np.sqrt(x), x >= 0
FloatSqrt(x) ==
    IF x.m = 0 THEN x
    ELSE LET sh == 2 * Precision + (x.e % 2)
             n == x.m * Pow2(sh)
             r == ISqrt(n)
             sticky == IF r * r = n THEN 0 ELSE 1
         IN  FloatRound(2 * r + sticky, ((x.e - sh) \div 2) - 1)

\* s[1] + ... + s[k], accumulated from the left as the loop does
RECURSIVE FloatSumTo(_, _)
FloatSumTo(s, k) == IF k = 0 THEN FloatZero ELSE FloatAdd(FloatSumTo(s, k - 1), s[k])

\* a float on the fixed-point grid, rounded toward zero
FloatToGrid(x) ==
    IF x.e >= 0 THEN x.m * Scale * Pow2(x.e)
    ELSE IF -x.e > 30 THEN 0
    ELSE Sign(x.m) * ((Abs(x.m) * Scale) \div Pow2(-x.e))

-----------------------------------------------------------------------------
(* The input tables *)

\* column names, in column order
Names == <<"A", "B", "C">>

\* the series a column can hold
Shapes == {"const", "ramp", "ramp2", "pulse", "pulse1"}

\* value of a series at row t (rows are 1 .. n, row t is date t)
Gen(shape, t) ==
    CASE shape = "const"  -> 1
      [] shape = "ramp"   -> t
      [] shape = "ramp2"  -> 2 * t
      [] shape = "pulse"  -> IF t = 4 THEN 1 ELSE 0
      [] shape = "pulse1" -> IF t = 5 THEN 1 ELSE 0
      [] shape = "pulse3" -> IF t = 4 THEN 3 ELSE 0

RowCounts == {TestLen} \cup (MinPoints .. (MinPoints + MaxExtraRows))

\* a table: its column names in order, its number of rows, its numpy columns
Table(ncols, nrows, shape) ==
    [columns |-> SubSeq(Names, 1, ncols),
     nrows   |-> nrows,
     data    |-> [c \in 1 .. ncols |-> [t \in 1 .. nrows |-> Gen(shape[c], t)]]]

\* pd.DataFrame(): no columns and no rows
EmptyFrame == Table(0, 0, << >>)

Tables ==
    {EmptyFrame} \cup
    {Table(ncols, nrows, shape) :
        <<ncols, nrows, shape>> \in
            UNION {{<<n, r, sh>> : r \in RowCounts, sh \in [1 .. n -> Shapes]} :
                   n \in 1 .. Len(Names)}}

\* the tables of two series the correlators are run on by themselves
CorrShapes == Shapes \cup {"pulse3"}

CorrTables ==
    {Table(2, nrows, shape) :
        <<nrows, shape>> \in RowCounts \X [1 .. 2 -> CorrShapes]}

\* two series of which the second repeats the first `shift` dates later:
\* B[t] = A[t - shift]
ShiftedTable(nrows, shape, shift) ==
    [columns |-> SubSeq(Names, 1, 2),
     nrows   |-> nrows,
     data    |-> <<[t \in 1 .. nrows |-> Gen(shape, t + shift)],
                   [t \in 1 .. nrows |-> Gen(shape, t)]>>]

\* their rows: one fewer than the greatest shift needs, up to MaxExtraRows more
ShiftedRowCounts == (MinPoints + MaxShift - 1) .. (MinPoints + MaxShift + MaxExtraRows)

ShiftedTables ==
    {ShiftedTable(nrows, shape, shift) :
        <<nrows, shape, shift>> \in
            ShiftedRowCounts \X (CorrShapes \ {"const"}) \X (1 .. MaxShift)}

\* DataFrame.empty
IsEmptyFrame(d) == Len(d.columns) = 0 \/ d.nrows = 0

-----------------------------------------------------------------------------
(* numpy: slices and np.corrcoef *)

\* a Python slice bound k on a sequence of length n: negative counts from the end
PyIndex(k, n) == IF k < 0 THEN (IF n + k < 0 THEN 0 ELSE n + k) ELSE Min(k, n)

\* a[lo:hi] of Python, a held as a 1-based sequence
Slice(a, lo, hi) ==
    LET l == PyIndex(lo, Len(a))
        h == PyIndex(hi, Len(a))
    IN  IF l >= h THEN << >> ELSE SubSeq(a, l + 1, h)

\* a[k:] and a[:k]
SliceFrom(a, k) == Slice(a, k, Len(a))
SliceTo(a, k) == Slice(a, 0, k)

SeqProd(x, y) == [t \in 1 .. Len(x) |-> x[t] * y[t]]

\* m * sum(xy) - sum(x) * sum(y): m * m times the covariance
CoMoment(x, y) == Len(x) * SumSeq(SeqProd(x, y)) - SumSeq(x) * SumSeq(y)

\* np.corrcoef(x, y)[0, 1] in fixed point; << >> when it is nan (a zero variance)
CorrCoef(x, y) ==
    LET sxy == CoMoment(x, y)
        sxx == CoMoment(x, x)
        syy == CoMoment(y, y)
    IN  IF sxx = 0 \/ syy = 0 THEN << >>
        ELSE <<Sign(sxy) * ((Abs(sxy) * Scale) \div ISqrt(sxx * syy))>>

-----------------------------------------------------------------------------
(* SignalScanner._correlate_numpy *)

\* the slice of lead_data had it been cut at the same end as lag_data
LeadSliceSameEnd(lead_data, lag) ==
    IF lag < 0 THEN SliceTo(lead_data, lag)
    ELSE IF lag > 0 THEN SliceFrom(lead_data, lag) ELSE lead_data

\* the slice of lead_data paired at `lag`
LeadSlice(lead_data, lag) ==
    IF lag < 0 THEN SliceFrom(lead_data, -lag)
    ELSE IF lag > 0 THEN SliceTo(lead_data, -lag) ELSE lead_data

\* the slice of lag_data had it been cut at the same end as lead_data
LagSliceSameEnd(lag_data, lag) ==
    IF lag < 0 THEN SliceFrom(lag_data, -lag)
    ELSE IF lag > 0 THEN SliceTo(lag_data, -lag) ELSE lag_data

\* the slice of lag_data paired at `lag`
LagSlice(lag_data, lag) ==
    IF lag < 0 THEN SliceTo(lag_data, lag) ELSE SliceFrom(lag_data, lag)

\* the body of the loop: the value stored in correlations[lag + max_lag]
CorrelateAtLag(lead_data, lag_data, lag) ==
    LET x0 == LeadSlice(lead_data, lag)
        y0 == LagSlice(lag_data, lag)
        min_len == Min(Len(x0), Len(y0))
    IN  IF min_len < MinPoints THEN 0
        ELSE LET correlation == CorrCoef(SliceTo(x0, min_len), SliceTo(y0, min_len))
             IN  IF correlation # << >> THEN correlation[1] ELSE 0

\* the array returned: entry lag + max_lag + 1 (1-based) is the value for `lag`
correlate_numpy(lead_data, lag_data, maxlag) ==
    [k \in 1 .. (2 * maxlag + 1) |-> CorrelateAtLag(lead_data, lag_data, k - 1 - maxlag)]

-----------------------------------------------------------------------------
(* SignalScanner._correlate_numba *)

\* correlate_numba_inner(x, y), computed in floats and returned on the grid
correlate_numba_inner(x, y) ==
    LET n == Len(x)
    IN  IF n < 2 THEN 0
        ELSE LET fx == [i \in 1 .. n |-> FloatOfInt(x[i])]
                 fy == [i \in 1 .. n |-> FloatOfInt(y[i])]
                 mean_x == FloatDiv(FloatSumTo(fx, n), FloatOfInt(n))
                 mean_y == FloatDiv(FloatSumTo(fy, n), FloatOfInt(n))
                 dx == [i \in 1 .. n |-> FloatSub(fx[i], mean_x)]
                 dy == [i \in 1 .. n |-> FloatSub(fy[i], mean_y)]
                 numerator == FloatSumTo([i \in 1 .. n |-> FloatMul(dx[i], dy[i])], n)
                 sum_x_sq == FloatSumTo([i \in 1 .. n |-> FloatMul(dx[i], dx[i])], n)
                 sum_y_sq == FloatSumTo([i \in 1 .. n |-> FloatMul(dy[i], dy[i])], n)
                 denominator == FloatSqrt(FloatMul(sum_x_sq, sum_y_sq))
             IN  IF denominator.m = 0 THEN 0
                 ELSE FloatToGrid(FloatDiv(numerator, denominator))

\* the body of the loop: the value stored in correlations[lag + max_lag]
NumbaAtLag(lead_data, lag_data, lag) ==
    LET x0 == LeadSlice(lead_data, lag)
        y0 == LagSlice(lag_data, lag)
        min_len == Min(Len(x0), Len(y0))
    IN  IF min_len < MinPoints THEN 0
        ELSE correlate_numba_inner(SliceTo(x0, min_len), SliceTo(y0, min_len))

correlate_numba(lead_data, lag_data, maxlag) ==
    [k \in 1 .. (2 * maxlag + 1) |-> NumbaAtLag(lead_data, lag_data, k - 1 - maxlag)]

-----------------------------------------------------------------------------
(* SignalScanner._calculate_correlations *)

\* np.argmax: the first index holding the greatest value
RECURSIVE ArgMaxFrom(_, _, _)
ArgMaxFrom(a, k, best) ==
    IF k > Len(a) THEN best
    ELSE ArgMaxFrom(a, k + 1, IF a[k] > a[best] THEN k ELSE best)

\* np.argmax had it returned the last index holding the greatest value
ArgMaxLast(a) ==
    CHOOSE k \in 1 .. Len(a) :
        /\ \A j \in 1 .. Len(a) : a[j] <= a[k]
        /\ \A j \in (k + 1) .. Len(a) : a[j] < a[k]

ArgMax(a) == ArgMaxFrom(a, 2, 1)

\* np.abs on an array
AbsArray(a) == [k \in 1 .. Len(a) |-> Abs(a[k])]

\* the test had it been `if i >= j`: each unordered pair once
SkipUnordered(i, j) == i >= j

\* `if i == j: continue`
SkipPair(i, j) == i = j

\* the (i, j) the two loops reach past the `continue`, in the order they reach them
PairsInOrder(n) ==
    SelectSeq([k \in 1 .. (n * n) |-> <<((k - 1) \div n) + 1, ((k - 1) % n) + 1>>],
              LAMBDA p : ~SkipPair(p[1], p[2]))

\* the array `correlations` of the pair (i, j): `if self.use_numba: ... else: ...`
PairProfile(d, maxlag, p) ==
    IF use_numba THEN correlate_numba(d.data[p[1]], d.data[p[2]], maxlag)
    ELSE correlate_numpy(d.data[p[1]], d.data[p[2]], maxlag)

\* the dict appended to `results` for a pair whose array `correlations` is
\* profile; `index` is its row label in the frame
PairResult(d, maxlag, p, profile, index) ==
    LET best_lag_idx == ArgMax(AbsArray(profile)) - 1
        best_correlation == profile[best_lag_idx + 1]
    IN  [index           |-> index,
         lead_series     |-> d.columns[p[1]],
         lag_series      |-> d.columns[p[2]],
         correlation     |-> best_correlation,
         lag             |-> best_lag_idx - maxlag,
         abs_correlation |-> Abs(best_correlation)]

\* the arrays `correlations` of the pairs, in the order the loops reach them
LagProfiles(d, maxlag) ==
    LET pairs == PairsInOrder(Len(d.columns))
    IN  [k \in 1 .. Len(pairs) |-> PairProfile(d, maxlag, pairs[k])]

\* pd.DataFrame(results): one row per pair, labelled 0, 1, ...
ResultsFrame(d, maxlag, profiles) ==
    LET pairs == PairsInOrder(Len(d.columns))
    IN  [k \in 1 .. Len(pairs) |-> PairResult(d, maxlag, pairs[k], profiles[k], k - 1)]

calculate_correlations(d, maxlag) == ResultsFrame(d, maxlag, LagProfiles(d, maxlag))

-----------------------------------------------------------------------------
(* pandas: missing cells, mean and standard deviation *)

NaN == << >>
Cell(v) == <<v>>
IsNaN(c) == c = NaN

Max(a, b) == IF a >= b THEN a ELSE b

\* the values of the cells that are present, in order (dropna)
Present(s) ==
    LET kept == SelectSeq(s, LAMBDA c : ~IsNaN(c))
    IN  [k \in 1 .. Len(kept) |-> kept[k][1]]

\* Series.std() (ddof = 1) of the integers v, times k, rounded down but never to
\* zero when the values differ; v has two values or more
StdTimes(v, k) ==
    LET m == Len(v)
        co == CoMoment(v, v)
    IN  IF co = 0 THEN 0
        ELSE Max(1, ISqrt(((co * k) \div (m * (m - 1))) * k))

\* (x - mean) / std in fixed point, for m values of sum `total` whose standard
\* deviation times k is `std`, std positive
ZValue(x, m, total, std, k) == FDiv((m * x - total) * Scale * k, m * std)

\* (s - v.mean()) / v.std() for the cells s, v being integers with a positive
\* std(); k is the precision the standard deviation is held with
ZScores(s, v, k) ==
    LET m == Len(v)
        total == SumSeq(v)
        std == StdTimes(v, k)
    IN  [t \in 1 .. Len(s) |->
            IF IsNaN(s[t]) THEN NaN ELSE Cell(ZValue(s[t][1], m, total, std, k))]

\* the integers v as cells
Cells(v) == [t \in 1 .. Len(v) |-> Cell(v[t])]

-----------------------------------------------------------------------------
(* SignalScanner._get_top_correlations and _calculate_z_scores *)

\* the position had ties gone to the last of the equal values
LastLargest(rows) ==
    ArgMaxLast([k \in 1 .. Len(rows) |-> rows[k].abs_correlation])

\* the first position holding the greatest abs_correlation
FirstLargest(rows) ==
    ArgMax([k \in 1 .. Len(rows) |-> rows[k].abs_correlation])

RemoveAt(s, k) == SubSeq(s, 1, k - 1) \o SubSeq(s, k + 1, Len(s))

\* rows by descending abs_correlation, equal values in their original order
RECURSIVE SortDescending(_)
SortDescending(rows) ==
    IF rows = << >> THEN << >>
    ELSE LET k == FirstLargest(rows)
         IN  <<rows[k]>> \o SortDescending(RemoveAt(rows, k))

\* nlargest had it been called with keep = 'all': every row tied with the n-th
NLargestKeepAll(rows, n) ==
    IF n <= 0 \/ rows = << >> THEN << >>
    ELSE LET sorted == SortDescending(rows)
             nth == sorted[Min(n, Len(rows))].abs_correlation
         IN  SelectSeq(sorted, LAMBDA r : r.abs_correlation >= nth)

\* DataFrame.nlargest(n, 'abs_correlation'), keep = 'first'
NLargest(rows, n) ==
    IF n <= 0 THEN << >>
    ELSE SubSeq(SortDescending(rows), 1, Min(n, Len(rows)))

\* the z_score column had mean and std been taken over the selected rows
ZScoresOverSelected(all_rows, selected) ==
    LET chosen == [k \in 1 .. Len(selected) |-> selected[k].correlation]
    IN  IF Len(selected) < 2
        THEN [k \in 1 .. Len(selected) |-> NaN]
        ELSE IF StdTimes(chosen, 1) = 0
        THEN [k \in 1 .. Len(selected) |-> Cell(0)]
        ELSE ZScores(Cells(chosen), chosen, 1)

\* the z_score column assigned to top_corr: the Series _calculate_z_scores
\* returns, aligned to the row labels of top_corr
calculate_z_scores(all_rows, selected) ==
    LET all_correlations == [k \in 1 .. Len(all_rows) |-> all_rows[k].correlation]
    IN  IF Len(all_rows) < 2
        THEN \* std() of one value is nan: nan == 0 is false, and x / nan is nan
             [k \in 1 .. Len(selected) |-> NaN]
        ELSE IF StdTimes(all_correlations, 1) = 0
        THEN \* pd.Series([0] * len(selected)) is labelled 0 .. len - 1
             [k \in 1 .. Len(selected) |->
                 IF selected[k].index < Len(selected) THEN Cell(0) ELSE NaN]
        ELSE ZScores([k \in 1 .. Len(selected) |-> Cell(selected[k].correlation)],
                     all_correlations, 1)

WithZScore(row, z) ==
    [index           |-> row.index,
     lead_series     |-> row.lead_series,
     lag_series      |-> row.lag_series,
     correlation     |-> row.correlation,
     lag             |-> row.lag,
     abs_correlation |-> row.abs_correlation,
     z_score         |-> z]

get_top_correlations(all_rows, n) ==
    IF all_rows = << >> THEN << >>
    ELSE LET top_corr == NLargest(all_rows, n)
             z == calculate_z_scores(all_rows, top_corr)
         IN  [k \in 1 .. Len(top_corr) |-> WithZScore(top_corr[k], z[k])]

-----------------------------------------------------------------------------
(* SignalScanner._build_composite_signal *)

\* the z_scores dict entry of column c: a Series over the dates 1 .. nrows
ColumnZScores(d, c) ==
    LET v == d.data[c]
    IN  IF StdTimes(v, Scale) > 0
        THEN ZScores(Cells(v), v, Scale)
        ELSE [t \in 1 .. d.nrows |-> Cell(0)]

\* the columns that have an entry in z_scores (`if len(series_data) > 0`)
ZScoreColumns(d) == {c \in 1 .. Len(d.columns) : d.nrows > 0}

\* the position of the column called name, 0 when there is none
ColumnOf(d, name) ==
    IF \E c \in 1 .. Len(d.columns) : d.columns[c] = name
    THEN CHOOSE c \in 1 .. Len(d.columns) : d.columns[c] = name
    ELSE 0

\* Series.shift(periods): the value of date t moves to date t + periods
Shift(s, periods) ==
    [t \in 1 .. Len(s) |->
        IF (t - periods) \in 1 .. Len(s) THEN s[t - periods] ELSE NaN]

\* Series * scalar, both in fixed point
Times(s, x) ==
    [t \in 1 .. Len(s) |-> IF IsNaN(s[t]) THEN NaN ELSE Cell(FDiv(s[t][1] * x, Scale))]

\* the choice had it been the lead series whatever the lag
SignalNameLead(row) == row.lead_series

\* the series whose z-score the row blends (`if lag < 0: ... else: ...`)
SignalName(row) == IF row.lag < 0 THEN row.lead_series ELSE row.lag_series

\* the argument of signal_series.shift
ShiftPeriods(row) == -row.lag

\* what signal_series is multiplied by when it is appended to composite_parts
PartFactor(row) == row.correlation

\* the test had it been `if lag_series in z_scores`
RowUsedLagOnly(d, row) == ColumnOf(d, row.lag_series) \in ZScoreColumns(d)

\* `if lead_series in z_scores and lag_series in z_scores`
RowUsed(d, row) ==
    /\ ColumnOf(d, row.lead_series) \in ZScoreColumns(d)
    /\ ColumnOf(d, row.lag_series) \in ZScoreColumns(d)

\* z_scores[...] is read for a name that has no entry: the loop raises KeyError
KeyError(d, top) ==
    \E k \in 1 .. Len(top) :
        /\ RowUsed(d, top[k])
        /\ ColumnOf(d, SignalName(top[k])) \notin ZScoreColumns(d)

\* signal_series of the row once `if lag != 0: signal_series = ...shift(-lag)` ran
ShiftedSignal(d, row) ==
    LET signal_series == ColumnZScores(d, ColumnOf(d, SignalName(row)))
    IN  IF row.lag # 0 THEN Shift(signal_series, ShiftPeriods(row)) ELSE signal_series

\* the element the row appends to composite_parts
CompositePart(d, row) == Times(ShiftedSignal(d, row), PartFactor(row))

\* composite_parts and weights after the loop over top_correlations
CompositeParts(d, top) ==
    LET used == SelectSeq(top, LAMBDA row : RowUsed(d, row))
    IN  [k \in 1 .. Len(used) |-> CompositePart(d, used[k])]

Weights(d, top) ==
    LET used == SelectSeq(top, LAMBDA row : RowUsed(d, row))
    IN  [k \in 1 .. Len(used) |-> Abs(used[k].correlation)]

\* (composite_df * weights_array).sum(axis=1) at date t: missing cells are skipped
WeightedSumAt(parts, w, t) ==
    SumSeq([k \in 1 .. Len(parts) |->
               IF IsNaN(parts[k][t]) THEN 0 ELSE parts[k][t][1] * w[k]])

\* ... / weights_array.sum(): 0 / 0 is nan
WeightedAverage(parts, w, nrows) ==
    [t \in 1 .. nrows |->
        IF SumSeq(w) = 0 THEN NaN
        ELSE Cell(FDiv(WeightedSumAt(parts, w, t), SumSeq(w)))]

\* (s - s.mean()) / s.std(): nan everywhere when std() is nan or zero
Normalize(s) ==
    LET v == Present(s)
    IN  IF Len(v) < 2 \/ StdTimes(v, 1) = 0
        THEN [t \in 1 .. Len(s) |-> NaN]
        ELSE ZScores(s, v, 1)

\* pd.Series(dtype=float)
EmptySeries == << >>

\* the three values the method leaves: parts, weights, the average, the result
build_composite_signal(d, top) ==
    LET parts == CompositeParts(d, top)
        w == Weights(d, top)
        raw == WeightedAverage(parts, w, d.nrows)
    IN  IF top = << >> \/ parts = << >>
        THEN [parts |-> << >>, weights |-> << >>, raw |-> EmptySeries,
              signal |-> EmptySeries]
        ELSE [parts |-> parts, weights |-> w, raw |-> raw, signal |-> Normalize(raw)]

-----------------------------------------------------------------------------
(* DataFetcher._align_dataframe.  A frame here has an index of dates and     *)
(* cells that can be missing: cells[c][r] is the cell of column c at row r.  *)

\* the frame pd.concat builds from n series over the dates 1 .. nrows; series
\* c has a value at the dates of mask[c], and the value names its date
RawFrame(ncols, nrows, mask) ==
    [columns |-> SubSeq(Names, 1, ncols),
     index   |-> [r \in 1 .. nrows |-> r],
     cells   |-> [c \in 1 .. ncols |->
                     [r \in 1 .. nrows |-> IF r \in mask[c] THEN Cell(r) ELSE NaN]]]

\* pd.DataFrame()
NoFrame == RawFrame(0, 0, << >>)

\* the dates of a series that has one value at most, or lacks one at most
SparseOrDense ==
    {m \in SUBSET (1 .. MaxRawRows) :
        Cardinality(m) <= 1 \/ Cardinality(m) >= MaxRawRows - 1}

\* one series with values at any dates, alone or beside a sparse or dense one
RawFrames ==
    {NoFrame}
        \cup {RawFrame(1, MaxRawRows, <<m>>) : m \in SUBSET (1 .. MaxRawRows)}
        \cup {RawFrame(2, MaxRawRows, <<p[1], p[2]>>) :
                  p \in (SUBSET (1 .. MaxRawRows)) \X SparseOrDense}

\* DataFrame.empty
FrameEmpty(f) == Len(f.columns) = 0 \/ Len(f.index) = 0

\* df.dropna(axis=1, how='all')
DropEmptyColumns(f) ==
    LET keep == SelectSeq([c \in 1 .. Len(f.columns) |-> c],
                          LAMBDA c : \E r \in 1 .. Len(f.index) : ~IsNaN(f.cells[c][r]))
    IN  [columns |-> [k \in 1 .. Len(keep) |-> f.columns[keep[k]]],
         index   |-> f.index,
         cells   |-> [k \in 1 .. Len(keep) |-> f.cells[keep[k]]]]

\* the last row not after r where the column has a value, 0 when there is none
LastValid(col, r) ==
    IF \E q \in 1 .. r : ~IsNaN(col[q])
    THEN CHOOSE q \in 1 .. r :
             /\ ~IsNaN(col[q])
             /\ \A u \in (q + 1) .. r : IsNaN(col[u])
    ELSE 0

\* ffill of one column: at most `limit` consecutive missing cells are filled
FillColumn(col, limit) ==
    [r \in 1 .. Len(col) |->
        LET q == LastValid(col, r)
        IN  IF q = 0 \/ r - q > limit THEN NaN ELSE col[q]]

\* the fill had it been given no limit
FillForwardUnlimited(f, limit) ==
    [f EXCEPT !.cells = [c \in 1 .. Len(f.columns) |-> FillColumn(f.cells[c], Len(f.index))]]

\* df.fillna(method='ffill', limit=limit)
FillForward(f, limit) ==
    [f EXCEPT !.cells = [c \in 1 .. Len(f.columns) |-> FillColumn(f.cells[c], limit)]]

\* the frame had no row been removed
KeepAllRows(f) == f

\* df.dropna(): the rows without a missing cell, under their own dates
DropMissingRows(f) ==
    LET keep == SelectSeq([r \in 1 .. Len(f.index) |-> r],
                          LAMBDA r : \A c \in 1 .. Len(f.columns) : ~IsNaN(f.cells[c][r]))
    IN  [columns |-> f.columns,
         index   |-> [k \in 1 .. Len(keep) |-> f.index[keep[k]]],
         cells   |-> [c \in 1 .. Len(f.columns) |->
                         [k \in 1 .. Len(keep) |-> f.cells[c][keep[k]]]]]

align_dataframe(f) ==
    IF FrameEmpty(f) THEN f
    ELSE DropMissingRows(FillForward(DropEmptyColumns(f), FillCap))

-----------------------------------------------------------------------------
(* SignalScanner.scan_signals *)

\* `top_n = top_n or self.top_n`: an argument of 0 or None is replaced by the
\* positive setting, a negative one is kept
TopNs == {0 - 1} \cup (1 .. MaxTopN)

\* the scanner of the test fixture, SignalScanner(use_numba=False)
Init ==
    /\ combined = NoFrame
    /\ aligned = NoFrame
    /\ use_numba = FALSE
    /\ df \in Tables
    /\ max_lag \in 1 .. MaxLagBound
    /\ top_n \in TopNs
    /\ pc = "fetched"
    /\ lag_profiles = << >>
    /\ correlations = << >>
    /\ top_correlations = << >>
    /\ composite_parts = << >>
    /\ weights = << >>
    /\ composite_raw = EmptySeries
    /\ composite_signal = EmptySeries
    /\ results = [keys |-> {}]
    /\ OthersIdle

\* `if df.empty: logger.error("No data available for analysis")`: the record
\* reaches the root logger, which carries AbortOnErrorHandler since the import
\* of data_fetcher loaded fetchers.fred (`logger = get_logger(__name__)`); the
\* `return {"error": "No data available"}` after it is not reached
NoDataAvailable ==
    /\ pc = "fetched"
    /\ IsEmptyFrame(df)
    /\ pc' \in AbortOutcomes
    /\ UNCHANGED <<other_vars, combined, aligned, use_numba, df, max_lag, top_n, lag_profiles,
                   correlations, top_correlations, composite_parts, weights, composite_raw,
                   composite_signal, results>>

\* correlations = self._calculate_correlations(df, max_lag)
CalculateCorrelations ==
    /\ pc = "fetched"
    /\ ~IsEmptyFrame(df)
    /\ lag_profiles' = LagProfiles(df, max_lag)
    /\ correlations' = ResultsFrame(df, max_lag, lag_profiles')
    /\ pc' = "correlated"
    /\ UNCHANGED <<other_vars, combined, aligned, use_numba, df, max_lag, top_n, top_correlations, composite_parts, weights,
                   composite_raw, composite_signal, results>>

\* top_correlations = self._get_top_correlations(correlations, top_n)
GetTopCorrelations ==
    /\ pc = "correlated"
    /\ top_correlations' = get_top_correlations(correlations, top_n)
    /\ pc' = "ranked"
    /\ UNCHANGED <<other_vars, combined, aligned, use_numba, df, max_lag, top_n, lag_profiles, correlations, composite_parts,
                   weights, composite_raw, composite_signal, results>>

\* composite_signal = self._build_composite_signal(df, top_correlations)
BuildCompositeSignal ==
    /\ pc = "ranked"
    /\ IF KeyError(df, top_correlations)
       THEN /\ pc' = "raised"
            /\ UNCHANGED <<composite_parts, weights, composite_raw, composite_signal>>
       ELSE LET built == build_composite_signal(df, top_correlations)
            IN  /\ composite_parts' = built.parts
                /\ weights' = built.weights
                /\ composite_raw' = built.raw
                /\ composite_signal' = built.signal
                /\ pc' = "composited"
    /\ UNCHANGED <<other_vars, combined, aligned, use_numba, df, max_lag, top_n, lag_profiles, correlations, top_correlations,
                   results>>

\* results = {...}; return results
ReturnResults ==
    /\ pc = "composited"
    /\ results' = [keys |-> {"start_date", "end_date", "series_count", "data_points",
                             "max_lag", "top_correlations", "composite_signal",
                             "all_correlations"},
                   series_count |-> Len(df.columns),
                   data_points |-> df.nrows,
                   max_lag |-> max_lag,
                   top_correlations |-> top_correlations,
                   composite_signal |-> composite_signal,
                   all_correlations |-> correlations]
    /\ pc' = "done"
    /\ UNCHANGED <<other_vars, combined, aligned, use_numba, df, max_lag, top_n, lag_profiles, correlations, top_correlations,
                   composite_parts, weights, composite_raw, composite_signal>>

Next ==
    \/ NoDataAvailable
    \/ CalculateCorrelations
    \/ GetTopCorrelations
    \/ BuildCompositeSignal
    \/ ReturnResults

Spec == Init /\ [][Next]_vars

-----------------------------------------------------------------------------
(* SignalScanner._calculate_correlations called by itself, with either       *)
(* correlator (test_calculate_correlations)                                  *)

InitCorr ==
    /\ combined = NoFrame
    /\ aligned = NoFrame
    /\ use_numba \in BOOLEAN
    /\ df \in CorrTables
    /\ max_lag \in 1 .. MaxLagBound
    /\ top_n = MaxTopN
    /\ pc = "fetched"
    /\ lag_profiles = << >>
    /\ correlations = << >>
    /\ top_correlations = << >>
    /\ composite_parts = << >>
    /\ weights = << >>
    /\ composite_raw = EmptySeries
    /\ composite_signal = EmptySeries
    /\ results = [keys |-> {}]
    /\ OthersIdle

NextCorr == CalculateCorrelations

SpecCorr == InitCorr /\ [][NextCorr]_vars

-----------------------------------------------------------------------------
(* SignalScanner._build_composite_signal called by itself on a table and a   *)
(* frame of relationships made up by the caller (test_build_composite_signal)*)

\* tables of TestLen rows with the columns A and B, and the empty table
BuildTables ==
    {EmptyFrame} \cup
    {Table(2, TestLen, shape) : shape \in [1 .. 2 -> {"ramp", "pulse"}]}

\* a row of the frame: any two different names, C not being a column
BuildRows ==
    {[index |-> 0, lead_series |-> Names[a], lag_series |-> Names[b],
      correlation |-> c, lag |-> l, abs_correlation |-> Abs(c), z_score |-> Cell(0)] :
        <<a, b, c, l>> \in
            {p \in (1 .. Len(Names)) \X (1 .. Len(Names)) \X {-(Scale \div 2), Scale}
                        \X ((-1) .. 1) : p[1] # p[2]}}

\* frames of no row, one row or two rows, labelled 0, 1
BuildFrames ==
    {<< >>} \cup {<<r>> : r \in BuildRows}
            \cup {<<p[1], [p[2] EXCEPT !.index = 1]>> : p \in BuildRows \X BuildRows}

InitBuild ==
    /\ combined = NoFrame
    /\ aligned = NoFrame
    /\ use_numba = FALSE
    /\ df \in BuildTables
    /\ max_lag = 1
    /\ top_n = MaxTopN
    /\ pc = "ranked"
    /\ lag_profiles = << >>
    /\ correlations = << >>
    /\ top_correlations \in BuildFrames
    /\ composite_parts = << >>
    /\ weights = << >>
    /\ composite_raw = EmptySeries
    /\ composite_signal = EmptySeries
    /\ results = [keys |-> {}]
    /\ OthersIdle

NextBuild == BuildCompositeSignal

SpecBuild == InitBuild /\ [][NextBuild]_vars

-----------------------------------------------------------------------------
(* _calculate_correlations on a series and its delayed copy, max_lag left at *)
(* the default of the settings                                               *)

InitShifted ==
    /\ combined = NoFrame
    /\ aligned = NoFrame
    /\ use_numba \in BOOLEAN
    /\ df \in ShiftedTables
    /\ max_lag = DefaultMaxLag
    /\ top_n = MaxTopN
    /\ pc = "fetched"
    /\ lag_profiles = << >>
    /\ correlations = << >>
    /\ top_correlations = << >>
    /\ composite_parts = << >>
    /\ weights = << >>
    /\ composite_raw = EmptySeries
    /\ composite_signal = EmptySeries
    /\ results = [keys |-> {}]
    /\ OthersIdle

SpecShifted == InitShifted /\ [][NextCorr]_vars

-----------------------------------------------------------------------------
(* DataFetcher._align_dataframe called on the frame of the fetched series    *)
(* (fetch_all_series, test_align_dataframe)                                  *)

InitAlign ==
    /\ combined \in RawFrames
    /\ aligned = NoFrame
    /\ use_numba = FALSE
    /\ df = EmptyFrame
    /\ max_lag = DefaultMaxLag
    /\ top_n = MaxTopN
    /\ pc = "combined"
    /\ lag_profiles = << >>
    /\ correlations = << >>
    /\ top_correlations = << >>
    /\ composite_parts = << >>
    /\ weights = << >>
    /\ composite_raw = EmptySeries
    /\ composite_signal = EmptySeries
    /\ results = [keys |-> {}]
    /\ OthersIdle

\* df = self._align_dataframe(df)
AlignDataframe ==
    /\ pc = "combined"
    /\ aligned' = align_dataframe(combined)
    /\ pc' = "aligned"
    /\ UNCHANGED <<other_vars, combined, use_numba, df, max_lag, top_n, lag_profiles, correlations,
                   top_correlations, composite_parts, weights, composite_raw,
                   composite_signal, results>>

NextAlign == AlignDataframe

SpecAlign == InitAlign /\ [][NextAlign]_vars

-----------------------------------------------------------------------------
(* Properties of the alignment *)

\* the dates of the input, and those of the output
InputDates == 1 .. Len(combined.index)
AlignedDates == {aligned.index[j] : j \in 1 .. Len(aligned.index)}

\* input column c has a value of its own at date d
Known(c, d) == ~IsNaN(combined.cells[c][d])

\* the retained series: the input columns that have a value somewhere
Retained == {c \in 1 .. Len(combined.columns) : \E d \in InputDates : Known(c, d)}

\* the value column c has at date d comes from `back` dates before: it is known
\* there and missing ever since
FilledFrom(c, d, back) ==
    /\ d - back >= 1
    /\ Known(c, d - back)
    /\ \A i \in (d - back + 1) .. d : ~Known(c, i)

\* column c has a value at date d, its own or one carried forward within the cap
HasValueAt(c, d) == \E back \in 0 .. FillCap : FilledFrom(c, d, back)

\* the input column called name
InputColumn(name) == CHOOSE c \in 1 .. Len(combined.columns) : combined.columns[c] = name

\* C18: in the table _align_dataframe returns every column has the same length
\* and the same date index, no cell is missing, and its rows are exactly the
\* dates of the input at which every retained series has a value, original or
\* forward-filled; a date where a retained series is missing is dropped whole.
C18_AlignedRowsAreComplete ==
    pc = "aligned" =>
        IF FrameEmpty(combined) THEN aligned = combined
        ELSE /\ Len(aligned.columns) = Cardinality(Retained)
             /\ \A k \in 1 .. Len(aligned.columns) :
                    /\ InputColumn(aligned.columns[k]) \in Retained
                    /\ DOMAIN aligned.cells[k] = 1 .. Len(aligned.index)
                    /\ \A j \in 1 .. Len(aligned.index) : ~IsNaN(aligned.cells[k][j])
             /\ DOMAIN aligned.cells = 1 .. Len(aligned.columns)
             /\ \A i, j \in 1 .. Len(aligned.index) :
                    i < j => aligned.index[i] < aligned.index[j]
             /\ AlignedDates \subseteq InputDates
             /\ \A d \in InputDates :
                    d \in AlignedDates <=> \A c \in Retained : HasValueAt(c, d)

\* a series without any value was removed, a date was dropped and a kept date
\* holds a forward-filled value
C18_Witness ==
    /\ pc = "aligned"
    /\ Len(combined.columns) = 2
    /\ Len(aligned.columns) = 1
    /\ Len(aligned.index) > 0
    /\ Len(aligned.index) < Len(combined.index)
    /\ \E j \in 1 .. Len(aligned.index) : aligned.cells[1][j] # Cell(aligned.index[j])

\* C19: a missing value is only ever replaced by the most recent earlier known
\* value of the same series, never by a later one, and only when that value is
\* at most 5 positions back; the positions of a gap beyond the cap stay missing
\* and their rows are left out of the aligned table.
C19_FillOnlyFromRecentPast ==
    pc = "aligned" =>
        /\ \A k \in 1 .. Len(aligned.columns) :
               \A j \in 1 .. Len(aligned.index) :
                   LET d == aligned.index[j]
                       c == InputColumn(aligned.columns[k])
                   IN  \E back \in 0 .. FillCap :
                           /\ FilledFrom(c, d, back)
                           /\ aligned.cells[k][j] = combined.cells[c][d - back]
        /\ \A c \in Retained :
               \A d \in InputDates : ~HasValueAt(c, d) => d \notin AlignedDates

\* a gap of more than 5 dates: the date 5 after the last known value is kept
\* with that value, the next one is left out
C19_Witness ==
    /\ pc = "aligned"
    /\ \E c \in Retained :
           \E d \in InputDates :
               /\ FilledFrom(c, d, FillCap)
               /\ d \in AlignedDates
               /\ d + 1 \in InputDates
               /\ ~Known(c, d + 1)
               /\ d + 1 \notin AlignedDates

-----------------------------------------------------------------------------
(* Properties of the correlation stage *)

\* _calculate_correlations has returned
Correlated == pc \in {"correlated", "ranked", "composited", "done"}

NumCols == Len(df.columns)

\* the lags of the window, and the place of a lag in a profile
Lags == (-max_lag) .. max_lag
At(profile, lag) == profile[lag + max_lag + 1]

\* the paired observations left at a lag
PairedAt(lag) == IF df.nrows - Abs(lag) < 0 THEN 0 ELSE df.nrows - Abs(lag)

\* C1: for a table with n columns `all` has exactly one entry for every ordered
\* pair of different columns and none whose lead_series is its lag_series, so
\* it has n * (n - 1) entries, whatever the data and max_lag.
C1_OneEntryPerOrderedPair ==
    Correlated =>
        /\ Len(correlations) = NumCols * (NumCols - 1)
        /\ \A k \in 1 .. Len(correlations) :
               correlations[k].lead_series # correlations[k].lag_series
        /\ \A a, b \in 1 .. NumCols :
               a # b =>
                   Cardinality({k \in 1 .. Len(correlations) :
                                   /\ correlations[k].lead_series = df.columns[a]
                                   /\ correlations[k].lag_series = df.columns[b]}) = 1

C1_Witness ==
    /\ pc = "correlated"
    /\ NumCols = 3
    /\ Len(correlations) = 6

\* C2 as amended: the reported lag holds the greatest absolute correlation of
\* the array the correlator returned for the pair, and when several lags share
\* it the lowest (most negative) of them is reported.
C2_FirstGreatestLag ==
    Correlated =>
        \A k \in 1 .. Len(correlations) :
            LET e == correlations[k]
                profile == lag_profiles[k]
            IN  /\ e.lag \in Lags
                /\ e.correlation = At(profile, e.lag)
                /\ e.abs_correlation = Abs(e.correlation)
                /\ \A l \in Lags : Abs(At(profile, l)) <= e.abs_correlation
                /\ \A l \in Lags : l < e.lag => Abs(At(profile, l)) < e.abs_correlation

\* a pair whose three or more lags were all computed and tie at a nonzero value
C2_Witness ==
    /\ pc = "correlated"
    /\ df.nrows - max_lag >= MinPoints
    /\ \E k \in 1 .. Len(correlations) :
           /\ correlations[k].abs_correlation > 0
           /\ \A l \in Lags : Abs(At(lag_profiles[k], l)) = correlations[k].abs_correlation

\* C2 as stated, on the tables where every lag of the window was computed: of
\* the lags sharing the greatest absolute correlation the one with the smallest
\* absolute lag value is reported.
C2_SmallestAbsLagOnTies ==
    (Correlated /\ df.nrows - max_lag >= MinPoints) =>
        \A k \in 1 .. Len(correlations) :
            \A l \in Lags :
                Abs(At(lag_profiles[k], l)) = correlations[k].abs_correlation
                    => Abs(correlations[k].lag) <= Abs(l)

\* C3: a lag left with fewer than 10 paired observations contributes no entry to
\* the pair's profile, and it is never the lag reported for the pair.
C3_SkippedLagNeverReported ==
    Correlated =>
        \A k \in 1 .. Len(correlations) :
            /\ Len(lag_profiles[k]) = Cardinality({l \in Lags : PairedAt(l) >= MinPoints})
            /\ PairedAt(correlations[k].lag) >= MinPoints

\* column b is a times column a, and column a is not constant
IsMultiple(a, b, times) ==
    /\ \A t \in 1 .. df.nrows : df.data[b][t] = times * df.data[a][t]
    /\ \E t, u \in 1 .. df.nrows : df.data[a][t] # df.data[a][u]

\* C4: for a non-constant x and y = a * x with a > 0 the correlator returns
\* 2 * max_lag + 1 values and the value for lag 0 is 1.0.
C4_ScaledCopyCorrelatesAtLagZero ==
    Correlated =>
        \A k \in 1 .. Len(correlations) :
            LET p == PairsInOrder(NumCols)[k]
            IN  (\E times \in 1 .. 2 : IsMultiple(p[1], p[2], times)) =>
                    /\ Len(lag_profiles[k]) = 2 * max_lag + 1
                    /\ At(lag_profiles[k], 0) = Scale

\* the slices of the pair (a, b) paired at lag, as the loop of either
\* correlator cuts them
CutLead(a, lag) == SliceTo(LeadSlice(df.data[a], lag), PairedAt(lag))
CutLag(b, lag) == SliceTo(LagSlice(df.data[b], lag), PairedAt(lag))

\* all the values of x are equal
ZeroVariance(x) == \A i, j \in 1 .. Len(x) : x[i] = x[j]

\* C13: the correlation reported for a pair and a lag lies in [-1, 1], and it
\* is exactly 0 when either shifted slice has zero variance, with the numpy
\* and with the numba correlator.
C13_CorrelationInUnitRange ==
    Correlated =>
        \A k \in 1 .. Len(lag_profiles) :
            \A l \in Lags :
                LET p == PairsInOrder(NumCols)[k]
                    value == At(lag_profiles[k], l)
                IN  /\ value >= -Scale
                    /\ value <= Scale
                    /\ (ZeroVariance(CutLead(p[1], l)) \/ ZeroVariance(CutLag(p[2], l)))
                           => value = 0

\* the dates t for which lead[t] and other[t + lag] both exist
PairedDates(lag) == {t \in 1 .. df.nrows : (t + lag) \in 1 .. df.nrows}

\* the k-th of these dates
RECURSIVE NthDate(_, _)
NthDate(dates, k) ==
    LET first == CHOOSE t \in dates : \A u \in dates : t <= u
    IN  IF k = 1 THEN first ELSE NthDate(dates \ {first}, k - 1)

\* the Pearson correlation of the paired values, by the correlator in use
PearsonOf(xs, ys) ==
    IF use_numba THEN correlate_numba_inner(xs, ys)
    ELSE LET c == CorrCoef(xs, ys) IN IF c = << >> THEN 0 ELSE c[1]

\* C14: for two series of length N and every lag L of the window with
\* N - |L| >= 10, the value reported for L is the Pearson correlation over
\* exactly the pairs (lead[t], other[t + L]) for the t where both exist, so the
\* sample size is N - |L| and a positive lag pairs the lead series with later
\* values of the other series.
C14_PairsLeadWithLaterOther ==
    Correlated =>
        \A k \in 1 .. Len(lag_profiles) :
            \A l \in Lags :
                (df.nrows - Abs(l) >= MinPoints) =>
                    LET p == PairsInOrder(NumCols)[k]
                        dates == PairedDates(l)
                        size == Cardinality(dates)
                        xs == [i \in 1 .. size |-> df.data[p[1]][NthDate(dates, i)]]
                        ys == [i \in 1 .. size |-> df.data[p[2]][NthDate(dates, i) + l]]
                    IN  /\ size = df.nrows - Abs(l)
                        /\ At(lag_profiles[k], l) = PearsonOf(xs, ys)

\* the numba correlator found the second series to repeat the first one date
\* later: a full correlation at lag 1 and a negative one at lag -1
C14_Witness ==
    /\ pc = "correlated"
    /\ use_numba
    /\ df.nrows - max_lag >= MinPoints
    /\ \E k \in 1 .. Len(lag_profiles) :
           /\ At(lag_profiles[k], 1) >= Scale
           /\ At(lag_profiles[k], -1) < 0

\* the second column repeats the first one `shift` dates later, and the first
\* is not constant
ShiftedCopy(shift) ==
    /\ NumCols = 2
    /\ \A t \in (shift + 1) .. df.nrows : df.data[2][t] = df.data[1][t - shift]
    /\ ~ZeroVariance(df.data[1])

\* the pair of `all` led by column a reports lag with correlation 1
Reports(a, lag) ==
    \E k \in 1 .. Len(correlations) :
        /\ correlations[k].lead_series = df.columns[a]
        /\ correlations[k].lag = lag
        /\ correlations[k].correlation = Scale

\* C15: for two series A and B with B[t] = A[t - 3], A not constant and not
\* periodic within the lag window, max_lag = 5 reports lag 3 for lead A and
\* lag -3 for lead B, with correlation 1.
C15_DelayedCopyReportsItsDelay ==
    (Correlated /\ ShiftedCopy(3)) => (Reports(1, 3) /\ Reports(2, -3))

\* every lag of the pair led by column a other than `lag` has an absolute
\* correlation below 1
NoOtherPerfectLag(a, lag) ==
    \A k \in 1 .. Len(correlations) :
        correlations[k].lead_series = df.columns[a] =>
            \A l \in Lags \ {lag} : Abs(At(lag_profiles[k], l)) < Scale

\* C15 as amended: when moreover the table has at least 10 rows more than the
\* delay and no other lag of the window correlates the pair perfectly, the
\* delay is reported for lead A and its negative for lead B, with
\* correlation 1; this for every delay from 1 to MaxShift, 3 among them.
C15_DelayReportedWhenMeasuredAndUnique ==
    Correlated =>
        \A shift \in 1 .. MaxShift :
            (/\ ShiftedCopy(shift)
             /\ df.nrows - shift >= MinPoints
             /\ NoOtherPerfectLag(1, shift)
             /\ NoOtherPerfectLag(2, -shift)) =>
                (Reports(1, shift) /\ Reports(2, -shift))

\* a delay of 3 measured on 10 pairs by the numba correlator, and reported
C15_Witness ==
    /\ pc = "correlated"
    /\ use_numba
    /\ max_lag = DefaultMaxLag
    /\ ShiftedCopy(3)
    /\ df.nrows - 3 = MinPoints
    /\ NoOtherPerfectLag(1, 3)
    /\ NoOtherPerfectLag(2, -3)
    /\ Reports(1, 3)
    /\ Reports(2, -3)

-----------------------------------------------------------------------------
(* Properties of the ranking stage *)

\* _get_top_correlations has returned
Ranked == pc \in {"ranked", "composited", "done"}

\* C5: when every pair fails the minimum-sample-size test at every lag (a table
\* with fewer than 10 rows), `all` and `top` are empty and no zero-correlation
\* entry is emitted; the scan still succeeds.
C5_TooFewRowsGiveEmptyRanking ==
    (Ranked /\ df.nrows < MinPoints) =>
        /\ correlations = << >>
        /\ top_correlations = << >>
        /\ pc = "done" => "error" \notin results.keys

\* the row of `all` labelled index
RowOf(index) == correlations[index + 1]

\* C6: for every positive top_n, `top` has exactly min(top_n, len(all)) entries,
\* each a different entry of `all`; when top_n is not less than len(all), `top`
\* holds every entry of `all`.
C6_TopIsCappedAndDistinct ==
    (Ranked /\ top_n > 0) =>
        /\ Len(top_correlations) = Min(top_n, Len(correlations))
        /\ \A k \in 1 .. Len(top_correlations) :
               LET r == top_correlations[k]
               IN  /\ r.index \in 0 .. (Len(correlations) - 1)
                   /\ r.lead_series = RowOf(r.index).lead_series
                   /\ r.lag_series = RowOf(r.index).lag_series
                   /\ r.correlation = RowOf(r.index).correlation
                   /\ r.lag = RowOf(r.index).lag
                   /\ r.abs_correlation = RowOf(r.index).abs_correlation
        /\ \A j, k \in 1 .. Len(top_correlations) :
               j # k => top_correlations[j].index # top_correlations[k].index
        /\ top_n >= Len(correlations) =>
               {top_correlations[k].index : k \in 1 .. Len(top_correlations)}
                   = 0 .. (Len(correlations) - 1)

\* top_n exceeds the number of ordered pairs of a table that has pairs
C6_Witness ==
    /\ pc = "ranked"
    /\ Len(correlations) > 0
    /\ top_n > Len(correlations)
    /\ Len(top_correlations) = Len(correlations)

\* C7: `top` is in order of non-increasing absolute correlation, entries of equal
\* absolute correlation in the order their pairs were enumerated, and no entry
\* left out of `top` would come before one that is in it.
C7_TopOrderIsStable ==
    Ranked =>
        /\ \A j, k \in 1 .. Len(top_correlations) :
               j < k =>
                   LET a == top_correlations[j]
                       b == top_correlations[k]
                   IN  \/ a.abs_correlation > b.abs_correlation
                       \/ /\ a.abs_correlation = b.abs_correlation
                          /\ a.index < b.index
        /\ \A k \in 1 .. Len(top_correlations) :
               \A i \in 1 .. Len(correlations) :
                   LET b == top_correlations[k]
                       o == correlations[i]
                   IN  (\A j \in 1 .. Len(top_correlations) :
                            top_correlations[j].index # o.index) =>
                           \/ o.abs_correlation < b.abs_correlation
                           \/ /\ o.abs_correlation = b.abs_correlation
                              /\ o.index > b.index

\* the sort moved a later pair to the front and kept two tied pairs in order
C7_Witness ==
    /\ pc = "ranked"
    /\ Len(top_correlations) >= 3
    /\ top_correlations[1].index > 0
    /\ top_correlations[1].abs_correlation = top_correlations[2].abs_correlation
    /\ top_correlations[2].abs_correlation > top_correlations[3].abs_correlation
    /\ top_correlations[3].index < top_correlations[1].index

\* the population `all`: the correlation of every row of the frame
AllCorrelations == [k \in 1 .. Len(correlations) |-> correlations[k].correlation]

\* C16: every entry of `top` carries z_score = (correlation - mean(all)) /
\* stdev(all), mean and stdev taken over the whole population `all` and the
\* value attached to the entry it was computed for; when the stdev of `all` is
\* zero the z_score of every entry of `top` is 0.
C16_ZScoreOverWholePopulation ==
    Ranked =>
        \A k \in 1 .. Len(top_correlations) :
            LET r == top_correlations[k]
                m == Len(AllCorrelations)
                std == StdTimes(AllCorrelations, 1)
            IN  /\ r.correlation = RowOf(r.index).correlation
                /\ std = 0 => r.z_score = Cell(0)
                /\ std > 0 =>
                       r.z_score = Cell(FDiv((m * r.correlation - SumSeq(AllCorrelations))
                                                 * Scale, m * std))

\* `top` leaves out part of a population whose correlations differ, and two of
\* its entries have z-scores of opposite sign
C16_Witness ==
    /\ pc = "ranked"
    /\ Len(top_correlations) < Len(correlations)
    /\ StdTimes(AllCorrelations, 1) > 0
    /\ \E j, k \in 1 .. Len(top_correlations) :
           /\ top_correlations[j].z_score # NaN
           /\ top_correlations[k].z_score # NaN
           /\ top_correlations[j].z_score[1] > 0
           /\ top_correlations[k].z_score[1] < 0

-----------------------------------------------------------------------------
(* Properties of the composite stage *)

\* _build_composite_signal has returned
Composited == pc \in {"composited", "done"}

\* part is the z-score of the column called name, moved by the row's lag one way
\* or the other and multiplied by the row's correlation
BlendsColumn(part, name, row) ==
    \E periods \in {row.lag, -row.lag} :
        part = Times(Shift(ColumnZScores(df, ColumnOf(df, name)), periods),
                     row.correlation)

\* C8: each relationship in `top` contributes the z-score of its lead_series
\* column, for every sign of its lag.
C8_LeadSeriesIsBlended ==
    Composited =>
        /\ Len(composite_parts) = Len(top_correlations)
        /\ \A k \in 1 .. Len(composite_parts) :
               BlendsColumn(composite_parts[k], top_correlations[k].lead_series,
                            top_correlations[k])

\* C8 as amended: a relationship contributes the z-score of its lead_series
\* column when its lag is negative and the z-score of its lag_series column
\* when its lag is zero or positive.
C8_BlendedSeriesFollowsLagSign ==
    Composited =>
        /\ Len(composite_parts) = Len(top_correlations)
        /\ \A k \in 1 .. Len(composite_parts) :
               LET row == top_correlations[k]
               IN  /\ row.lag < 0 =>
                          BlendsColumn(composite_parts[k], row.lead_series, row)
                   /\ row.lag >= 0 =>
                          BlendsColumn(composite_parts[k], row.lag_series, row)

\* relationships of both signs of lag are blended, and the one of positive lag
\* contributes a series that is not the z-score of its lead_series
C8_Witness ==
    /\ pc = "composited"
    /\ \E j, k \in 1 .. Len(composite_parts) :
           /\ top_correlations[j].lag < 0
           /\ top_correlations[j].correlation # 0
           /\ top_correlations[k].lag > 0
           /\ top_correlations[k].correlation # 0
           /\ ~BlendsColumn(composite_parts[k], top_correlations[k].lead_series,
                            top_correlations[k])

\* C9: a relationship of lag L > 0 contributes at date t the z-score observed at
\* date t - L, so nothing it contributes at date t is dated later than t.
C9_PositiveLagMovesValuesForward ==
    Composited =>
        \A k \in 1 .. Len(composite_parts) :
            LET row == top_correlations[k]
            IN  row.lag > 0 =>
                    \E name \in {row.lead_series, row.lag_series} :
                        composite_parts[k] =
                            Times(Shift(ColumnZScores(df, ColumnOf(df, name)), row.lag),
                                  row.correlation)

\* every contributor has a value at date t
AllPresentAt(t) ==
    \A k \in 1 .. Len(top_correlations) :
        ~IsNaN(ShiftedSignal(df, top_correlations[k])[t])

\* sum_i(w_i * z_i[t]) with w_i = |correlation_i| and z_i the shifted z-score
ClaimedSumAt(t) ==
    SumSeq([k \in 1 .. Len(top_correlations) |->
               Abs(top_correlations[k].correlation)
                   * ShiftedSignal(df, top_correlations[k])[t][1]])

ClaimedWeight == SumSeq([k \in 1 .. Len(top_correlations) |->
                            Abs(top_correlations[k].correlation)])

\* C10: at every date where all contributors are present the composite before
\* re-normalization is sum_i(w_i * z_i[t]) / sum_i(w_i) with w_i = |correlation_i|.
C10_WeightedOnceByAbsCorrelation ==
    (Composited /\ top_correlations # << >> /\ ClaimedWeight > 0) =>
        \A t \in 1 .. df.nrows :
            AllPresentAt(t) =>
                composite_raw[t] = Cell(FDiv(ClaimedSumAt(t), ClaimedWeight))

\* the elements of composite_parts that have a value at date t
PresentAt(t) == {k \in 1 .. Len(composite_parts) : ~IsNaN(composite_parts[k][t])}

\* the weighted sum and the weight of the elements present at date t
PresentSumAt(t) ==
    SumSeq([k \in 1 .. Len(composite_parts) |->
               IF k \in PresentAt(t) THEN composite_parts[k][t][1] * weights[k] ELSE 0])

PresentWeightAt(t) ==
    SumSeq([k \in 1 .. Len(composite_parts) |->
               IF k \in PresentAt(t) THEN weights[k] ELSE 0])

\* C11: at a date where some contributing shifted series is missing, the
\* composite before re-normalization is the weighted average over the
\* contributors present at that date only: the missing one is left out of the
\* weighted sum and of the weight denominator.
C11_MissingContributorLeftOut ==
    Composited =>
        \A t \in 1 .. Len(composite_raw) :
            (/\ PresentAt(t) # 1 .. Len(composite_parts)
             /\ PresentWeightAt(t) > 0) =>
                composite_raw[t] = Cell(FDiv(PresentSumAt(t), PresentWeightAt(t)))

\* every selected correlation is exactly zero
AllSelectedZero ==
    \A k \in 1 .. Len(top_correlations) : top_correlations[k].correlation = 0

\* the weighted average has two values or more and their standard deviation is 0
ZeroDeviation ==
    LET v == Present(composite_raw)
    IN  Len(v) >= 2 /\ StdTimes(v, 1) = 0

\* C12: when the combined composite has zero standard deviation over its
\* non-missing span, or all selected correlations are exactly zero,
\* _build_composite_signal returns the all-zero series or an empty series,
\* never a series of NaN.
C12_ZeroDeviationGivesZeros ==
    (Composited /\ top_correlations # << >> /\ (AllSelectedZero \/ ZeroDeviation)) =>
        \A t \in 1 .. Len(composite_signal) : composite_signal[t] = Cell(0)

\* the relationships of `top` whose two series are columns of the table
Remaining ==
    SelectSeq(top_correlations,
              LAMBDA row : /\ \E c \in 1 .. NumCols : df.columns[c] = row.lead_series
                           /\ \E c \in 1 .. NumCols : df.columns[c] = row.lag_series)

\* C17: _build_composite_signal never fails on its inputs: a relationship whose
\* lead series is not a column of the table is skipped and the remaining ones
\* still form the composite, over every date of the table; when none remains,
\* an empty `top` included, the result is an empty series.
C17_AbsentSeriesSkippedNotRaised ==
    /\ pc # "raised"
    /\ Composited =>
           /\ Len(composite_parts) = Len(Remaining)
           /\ \A k \in 1 .. Len(Remaining) :
                  \E name \in {Remaining[k].lead_series, Remaining[k].lag_series} :
                      BlendsColumn(composite_parts[k], name, Remaining[k])
           /\ Remaining = << >> => composite_signal = EmptySeries
           /\ Remaining # << >> => Len(composite_signal) = df.nrows

\* of two relationships the first, led by a series that is no column, was
\* skipped and the second alone formed a composite that has values
C17_Witness ==
    /\ pc = "composited"
    /\ Len(top_correlations) = 2
    /\ top_correlations[1].lead_series \notin {df.columns[c] : c \in 1 .. NumCols}
    /\ Len(composite_parts) = 1
    /\ Len(composite_signal) = df.nrows
    /\ \E t \in 1 .. df.nrows : composite_signal[t] # NaN

-----------------------------------------------------------------------------
(* Properties of the whole scan *)

\* C20: when fewer than 10 overlapping dates remain after alignment the scan
\* ends in failure with an alignment error: no correlations are computed and no
\* result with top_correlations and composite_signal is produced.
C20_TooFewDatesFailTheScan ==
    df.nrows < MinPoints =>
        /\ ~Correlated
        /\ "top_correlations" \notin results.keys

\* C21: the scan fails with a ranking error and returns no result when top_n is
\* not positive or the table has fewer than two columns.
C21_NoPairsOrNoTopFailsTheScan ==
    (/\ Len(df.columns) > 0
     /\ df.nrows > 0
     /\ (top_n <= 0 \/ Len(df.columns) < 2)) =>
        /\ pc \notin {"composited", "done"}
        /\ "top_correlations" \notin results.keys

\* C22: when the table handed to the scan is empty, the value returned carries
\* the reason 'No data available' and nothing else, and the correlation, the
\* ranking and the composite stages are not run.
C22_EmptyTableReturnsOnlyTheReason ==
    (Len(df.columns) = 0 \/ df.nrows = 0) =>
        /\ lag_profiles = << >>
        /\ correlations = << >>
        /\ top_correlations = << >>
        /\ composite_parts = << >>
        /\ composite_signal = EmptySeries
        /\ pc # "fetched" =>
               /\ results.keys = {"error"}
               /\ results.error = "No data available"

-----------------------------------------------------------------------------
(* The centralized logger of config.py (CentralizedLogger): a run of          *)
(* statements that log through it (src/test_logging.py)                       *)

\* every variable of the scan at rest
ScanIdle ==
    /\ combined = NoFrame
    /\ aligned = NoFrame
    /\ use_numba = FALSE
    /\ df = EmptyFrame
    /\ max_lag = DefaultMaxLag
    /\ top_n = MaxTopN
    /\ pc = "idle"
    /\ lag_profiles = << >>
    /\ correlations = << >>
    /\ top_correlations = << >>
    /\ composite_parts = << >>
    /\ weights = << >>
    /\ composite_raw = EmptySeries
    /\ composite_signal = EmptySeries
    /\ results = [keys |-> {}]

\* statements of a run: 1 .. MaxScript
MaxScript == 2
\* INSTANT_ABORT calls the interpreter's stack has room for
RecursionLimit == 2

\* the levels the statements of test_logging.py log at
Levels == {"debug", "info", "warning", "error"}

\* record.levelno >= logging.WARNING
Severe(level) == level \in {"warning", "error", "critical"}

Scripts == UNION {[1 .. n -> Levels] : n \in 1 .. MaxScript}

\* setup_centralized_logging has run: the root logger carries the file, the
\* console and the error handler, and AbortOnErrorHandler after them
InitLog ==
    /\ ScanIdle
    /\ script \in Scripts
    /\ ip = 1
    /\ catches \in BOOLEAN
    /\ nested_logging \in BOOLEAN
    /\ log_file = << >>
    /\ call_depth = 0
    /\ status = "running"
    /\ exit_code = 0 - 1
    /\ ConfigIdle
    /\ ImportIdle
    /\ FetchIdle
    /\ RequestIdle
    /\ PageIdle

\* logger.<level>(...): the handlers of the root logger run in the order they
\* were added, so file_handler writes the record before AbortOnErrorHandler.emit
\* looks at its level
LogStatement ==
    /\ status = "running"
    /\ ip <= Len(script)
    /\ log_file' = Append(log_file, script[ip])
    /\ IF Severe(script[ip])
       THEN /\ status' = "aborting"
            /\ call_depth' = 1
            /\ ip' = ip
       ELSE /\ ip' = ip + 1
            /\ UNCHANGED <<status, call_depth>>
    /\ UNCHANGED <<scan_vars, page_vars, config_vars, import_vars, fetch_vars, request_vars, script, catches, nested_logging, exit_code>>

\* INSTANT_ABORT: `self.logger.critical(...)` comes before `os._exit(1)`; the
\* critical record goes through the same handlers, AbortOnErrorHandler among
\* them, which calls INSTANT_ABORT again
InstantAbort ==
    /\ status = "aborting"
    /\ IF ~nested_logging
       THEN /\ status' = "exited"
            /\ exit_code' = 1
            /\ UNCHANGED <<log_file, call_depth>>
       ELSE IF call_depth < RecursionLimit
       THEN /\ log_file' = Append(log_file, "critical")
            /\ call_depth' = call_depth + 1
            /\ UNCHANGED <<status, exit_code>>
       ELSE /\ status' = "unwinding"
            /\ UNCHANGED <<log_file, call_depth, exit_code>>
    /\ UNCHANGED <<scan_vars, page_vars, config_vars, import_vars, fetch_vars, request_vars, script, ip, catches, nested_logging>>

\* the RecursionError leaves every INSTANT_ABORT frame (none catches it) and
\* comes out of the logging call of the statement
PropagateRecursionError ==
    /\ status = "unwinding"
    /\ call_depth' = 0
    /\ IF catches
       THEN /\ status' = "running"
            /\ ip' = ip + 1
       ELSE /\ status' = "uncaught"
            /\ ip' = ip
    /\ UNCHANGED <<scan_vars, page_vars, config_vars, import_vars, fetch_vars, request_vars, script, catches, nested_logging, log_file, exit_code>>

\* sys.excepthook = abort_exception_handler: INSTANT_ABORT once more, which
\* logs and fails the same way; the interpreter goes on to shut down
ExceptHook ==
    /\ status = "uncaught"
    /\ log_file' = Append(log_file, "critical")
    /\ status' = "shutdown"
    /\ UNCHANGED <<scan_vars, page_vars, config_vars, import_vars, fetch_vars, request_vars, script, ip, catches, nested_logging, call_depth, exit_code>>

\* atexit: cleanup_handler logs "Application shutting down"; an uncaught
\* exception makes the exit status 1
AtExit ==
    /\ status = "shutdown"
    /\ log_file' = Append(log_file, "info")
    /\ status' = "exited"
    /\ exit_code' = 1
    /\ UNCHANGED <<scan_vars, page_vars, config_vars, import_vars, fetch_vars, request_vars, script, ip, catches, nested_logging, call_depth>>

\* the run ends after its last statement; cleanup_handler logs at exit
Finish ==
    /\ status = "running"
    /\ ip > Len(script)
    /\ log_file' = Append(log_file, "info")
    /\ status' = "exited"
    /\ exit_code' = 0
    /\ UNCHANGED <<scan_vars, page_vars, config_vars, import_vars, fetch_vars, request_vars, script, ip, catches, nested_logging, call_depth>>

NextLog ==
    \/ LogStatement
    \/ InstantAbort
    \/ PropagateRecursionError
    \/ ExceptHook
    \/ AtExit
    \/ Finish

SpecLog == InitLog /\ [][NextLog]_vars

\* the first record at WARNING or above the file handler wrote
FirstSevere ==
    CHOOSE k \in 1 .. Len(log_file) :
        /\ Severe(log_file[k])
        /\ \A j \in 1 .. (k - 1) : ~Severe(log_file[j])

\* C23: once a record at WARNING or above is logged, the process exits at once
\* with status 1: no later record is written, no statement after the logging
\* call runs.
C23_AbortIsImmediate ==
    (\E k \in 1 .. Len(log_file) : Severe(log_file[k])) =>
        /\ FirstSevere = Len(log_file)
        /\ ip = FirstSevere
        /\ status \in {"aborting", "exited"}
        /\ status = "exited" => exit_code = 1

-----------------------------------------------------------------------------
(* config.get_settings: the settings singleton and the directories it makes  *)
(* (tests/test_config.py, TestGetSettings)                                   *)

\* directories PROJECT_ROOT is set to: 1 is the directory of config.py, the
\* others are what a test patches in (tmp_path)
MaxRoots == 3

Roots == 1 .. MaxRoots

\* values of DB_DIR and LOG_DIR
DirNames == {"database", "logs", "data"}

\* the process starts: only the project's own directory may hold directories
InitSettings ==
    /\ ScanIdle
    /\ LogIdle
    /\ settings = NoSettings
    /\ project_root = 1
    /\ environ \in [{"DB_DIR", "LOG_DIR"} -> DirNames]
    /\ dirs \in SUBSET ({1} \X DirNames)
    /\ last_call = [returned |-> FALSE]
    /\ ImportIdle
    /\ FetchIdle
    /\ RequestIdle
    /\ PageIdle

\* Settings(): db_dir and log_dir from the environment
NewSettings == [set |-> TRUE, db_dir |-> environ.DB_DIR, log_dir |-> environ.LOG_DIR]

\* get_settings(), first of all the call of _export_settings() at the import of
\* config: directories are made only when `_settings is None`
GetSettings ==
    /\ IF settings = NoSettings
       THEN /\ settings' = NewSettings
            /\ dirs' = dirs \cup {<<project_root, NewSettings.db_dir>>,
                                 <<project_root, NewSettings.log_dir>>}
       ELSE UNCHANGED <<settings, dirs>>
    /\ last_call' = [returned |-> TRUE, root |-> project_root, value |-> settings']
    /\ UNCHANGED <<scan_vars, page_vars, log_vars, import_vars, fetch_vars, request_vars, project_root, environ>>

\* `with patch('config.PROJECT_ROOT', tmp_path)`, and leaving the block; config
\* is imported by then, so get_settings has been called
PatchProjectRoot ==
    /\ settings # NoSettings
    /\ \E r \in Roots \ {project_root} : project_root' = r
    /\ UNCHANGED <<scan_vars, page_vars, log_vars, import_vars, fetch_vars, request_vars, settings, environ, dirs, last_call>>

NextSettings ==
    \/ GetSettings
    \/ PatchProjectRoot

SpecSettings == InitSettings /\ [][NextSettings]_vars

\* C24: after any call of get_settings returns, the first or a later one, the
\* database and the log directory of the returned settings exist under the
\* PROJECT_ROOT in effect at that call.
C24_DirectoriesExistAfterEveryCall ==
    last_call.returned =>
        /\ <<last_call.root, last_call.value.db_dir>> \in dirs
        /\ <<last_call.root, last_call.value.log_dir>> \in dirs

-----------------------------------------------------------------------------
(* The import of the fetchers package (src/fetchers/__init__.py) and of the  *)
(* modules that import it                                                    *)

FetcherModules ==
    {"fetchers.fred", "fetchers.yahoo", "fetchers.fng", "fetchers.trends", "fetchers.binance"}

\* the modules a program or a test imports first
Entries == {"fetchers", "data_fetcher", "signal_scanner"} \cup FetcherModules

\* the class each fetcher module defines
FetcherClass(m) ==
    CASE m = "fetchers.fred"    -> "FredFetcher"
      [] m = "fetchers.yahoo"   -> "YahooFetcher"
      [] m = "fetchers.fng"     -> "FearGreedFetcher"
      [] m = "fetchers.trends"  -> "TrendsFetcher"
      [] m = "fetchers.binance" -> "BinanceFetcher"

\* `from <module> import <names>`
From(m, names) == [module |-> m, names |-> names]

\* the import statements of a module of the repository, in order
ImportStatements(m) ==
    CASE m = "__main__" -> <<From(entry, {})>>
      [] m = "fetchers" ->
            <<From("fetchers.base", {"BaseFetcher", "fetcher_registry"}),
              From("fetchers.fred", {"FredFetcher"}),
              From("fetchers.yahoo", {"YahooFetcher"}),
              From("fetchers.fng", {"FearGreedFetcher"}),
              From("fetchers.trends", {"TrendsFetcher"}),
              From("fetchers.binance", {"BinanceFetcher"})>>
      [] m \in FetcherModules ->
            <<From("fetchers.base", {"BaseFetcher", "register_fetcher"}),
              From("config", {"get_settings", "get_logger"})>>
      [] m = "data_fetcher" ->
            <<From("config", {"get_settings"}),
              From("fetchers", {"fetcher_registry"})>>
      [] m = "signal_scanner" ->
            <<From("config", {"get_settings"}),
              From("data_fetcher", {"DataFetcher"})>>
      [] OTHER -> << >>

\* the names a module defines once it has run
Defines(m) ==
    CASE m = "fetchers.base" -> {"BaseFetcher", "fetcher_registry", "logger"}
      [] m = "config" ->
            {"PROJECT_ROOT", "Settings", "get_settings", "CentralizedLogger",
             "setup_centralized_logging", "get_logger", "setup_abort_on_warning_or_error"}
      [] m = "fetchers" -> {"BaseFetcher", "fetcher_registry"} \cup
                           {FetcherClass(f) : f \in FetcherModules}
      [] m \in FetcherModules -> {FetcherClass(m), "logger"}
      [] m = "data_fetcher" -> {"DataFetcher", "logger"}
      [] m = "signal_scanner" -> {"SignalScanner", "logger"}
      [] OTHER -> {}

\* the package a module is in, imported before the module
Package(m) == IF m \in FetcherModules \cup {"fetchers.base"} THEN "fetchers" ELSE ""

\* the modules in sys.modules: those that have run and those that are running
InProgress == {import_stack[k].module : k \in 1 .. Len(import_stack)}

InSysModules(m) == m \in sys_modules \cup InProgress

Top == import_stack[Len(import_stack)]

\* the statement the running module is at
Statement == ImportStatements(Top.module)[Top.line]

\* the stack with the running module moved to its next statement
Advance == [import_stack EXCEPT ![Len(import_stack)].line = @ + 1]

\* the process is about to run `import <entry>`
InitImport ==
    /\ ScanIdle
    /\ LogIdle
    /\ settings = NoSettings
    /\ project_root = 1
    /\ environ \in [{"DB_DIR", "LOG_DIR"} -> DirNames]
    /\ dirs \in SUBSET ({1} \X {"database", "logs"})
    /\ last_call = [returned |-> FALSE]
    /\ entry \in Entries
    /\ import_stack = <<[module |-> "__main__", line |-> 1]>>
    /\ sys_modules = {}
    /\ fetcher_registry = {}
    /\ import_error = ""
    /\ FetchIdle
    /\ RequestIdle
    /\ PageIdle

\* an import statement names a module that is not in sys.modules: its package
\* first, then the module, starts to run
ImportModule ==
    /\ import_stack # << >>
    /\ import_error = ""
    /\ Top.line <= Len(ImportStatements(Top.module))
    /\ ~InSysModules(Statement.module)
    /\ LET pkg == Package(Statement.module)
           m == IF pkg # "" /\ ~InSysModules(pkg) THEN pkg ELSE Statement.module
       IN  import_stack' = Append(import_stack, [module |-> m, line |-> 1])
    /\ UNCHANGED <<scan_vars, page_vars, log_vars, config_vars, fetch_vars, request_vars, entry, sys_modules, fetcher_registry,
                   import_error>>

\* `from m import names` where m is in sys.modules and defines the names
BindNames ==
    /\ import_stack # << >>
    /\ import_error = ""
    /\ Top.line <= Len(ImportStatements(Top.module))
    /\ InSysModules(Statement.module)
    /\ Statement.names \subseteq Defines(Statement.module)
    /\ import_stack' = Advance
    /\ UNCHANGED <<scan_vars, page_vars, log_vars, config_vars, fetch_vars, request_vars, entry, sys_modules, fetcher_registry,
                   import_error>>

\* `from m import names` where m lacks one of the names: ImportError
RaiseImportError ==
    /\ import_stack # << >>
    /\ import_error = ""
    /\ Top.line <= Len(ImportStatements(Top.module))
    /\ InSysModules(Statement.module)
    /\ \E name \in Statement.names \ Defines(Statement.module) : import_error' = name
    /\ UNCHANGED <<scan_vars, page_vars, log_vars, config_vars, fetch_vars, request_vars, entry, import_stack, sys_modules,
                   fetcher_registry>>

\* the ImportError leaves every module that is running; none of them stays in
\* sys.modules
PropagateImportError ==
    /\ import_stack # << >>
    /\ import_error # ""
    /\ import_stack' = << >>
    /\ UNCHANGED <<scan_vars, page_vars, log_vars, config_vars, fetch_vars, request_vars, entry, sys_modules, fetcher_registry,
                   import_error>>

\* the rest of a module runs after its imports: config ends with
\* _export_settings(), which calls get_settings(); fetchers.base ends with
\* `fetcher_registry = {}`
FinishModule ==
    /\ import_stack # << >>
    /\ import_error = ""
    /\ Top.line > Len(ImportStatements(Top.module))
    /\ sys_modules' = sys_modules \cup {Top.module}
    /\ import_stack' = SubSeq(import_stack, 1, Len(import_stack) - 1)
    /\ IF Top.module = "config"
       THEN /\ settings' = NewSettings
            /\ dirs' = dirs \cup {<<project_root, NewSettings.db_dir>>,
                                 <<project_root, NewSettings.log_dir>>}
            /\ last_call' = [returned |-> TRUE, root |-> project_root, value |-> settings']
       ELSE UNCHANGED <<settings, dirs, last_call>>
    /\ fetcher_registry' = IF Top.module = "fetchers.base" THEN {} ELSE fetcher_registry
    /\ UNCHANGED <<scan_vars, page_vars, log_vars, fetch_vars, request_vars, project_root, environ, entry, import_error>>

NextImport ==
    \/ ImportModule
    \/ BindNames
    \/ RaiseImportError
    \/ PropagateImportError
    \/ FinishModule

SpecImport == InitImport /\ [][NextImport]_vars

\* the import statement of the process is over, with or without an exception
ImportOver == import_stack = << >>

\* the sources data_sources.yaml may name
Sources == {"fred", "yahoo", "fng", "trends", "binance"}

\* C25: after the fetchers package is imported, fetcher_registry holds an entry
\* for 'fred', 'yahoo', 'fng', 'trends' and 'binance', so that
\* _fetch_single_series finds a fetcher for each of them.
C25_RegistryPopulatedOnImport ==
    ImportOver =>
        /\ import_error = ""
        /\ "fetchers" \in sys_modules
        /\ Sources \subseteq fetcher_registry

-----------------------------------------------------------------------------
(* DataFetcher.fetch_all_series and DataFetcher._fetch_single_series         *)
(* (src/data_fetcher.py), run with the root logger config.get_logger set up  *)
(* when data_fetcher imported the fetchers                                   *)

\* entries of the configuration: 0 .. MaxSeries
MaxSeries == 2

\* names and sources of the entries of data_sources.yaml
SeriesNames == {"S1", "S2"}

ConfiguredSources == {"fred", "binance"}

SeriesConfigs == [name : SeriesNames, source : ConfiguredSources]

SeriesLists == UNION {[1 .. n -> SeriesConfigs] : n \in 0 .. MaxSeries}

\* what `await fetcher.fetch(start, end, **kwargs)` does
Outcomes == {"data", "empty", "raises"}

\* results of a task: the Series of entry i, or the exception it ended with
SeriesOf(i) == [kind |-> "series", id |-> i]

Raised == [kind |-> "exception"]

Pending == [kind |-> "pending"]

InitFetch ==
    /\ ScanIdle
    /\ ConfigIdle
    /\ script = << >>
    /\ ip = 1
    /\ catches = FALSE
    /\ nested_logging \in BOOLEAN
    /\ log_file = << >>
    /\ call_depth = 0
    /\ status = "running"
    /\ exit_code = 0 - 1
    /\ entry = ""
    /\ import_stack = << >>
    /\ sys_modules = {}
    /\ fetcher_registry \in SUBSET ConfiguredSources
    /\ import_error = ""
    /\ series_list \in SeriesLists
    /\ outcomes \in [1 .. Len(series_list) -> Outcomes]
    /\ completion = << >>
    /\ task_results = [i \in 1 .. Len(series_list) |-> Pending]
    /\ series_dict = << >>
    /\ fetch_pc = "start"
    /\ table = << >>
    /\ RequestIdle
    /\ PageIdle

\* a call of logger.warning or logger.error: the record reaches
\* AbortOnErrorHandler on the root logger. Where the interpreter handles the
\* record INSTANT_ABORT logs, the call raises RecursionError; where it drops
\* it, the process is gone with os._exit(1)
LogRaises == nested_logging

\* `if not series_list: logger.warning("No series configured for fetching")`
NoSeriesConfigured ==
    /\ fetch_pc = "start"
    /\ series_list = << >>
    /\ fetch_pc' = IF LogRaises THEN "raised" ELSE "exited"
    /\ UNCHANGED <<scan_vars, page_vars, log_vars, config_vars, import_vars, request_vars, series_list, outcomes,
                   completion, task_results, series_dict, table>>

\* tasks.append(self._fetch_single_series(start, end, series_config)) for each
\* entry; results = await asyncio.gather(*tasks, return_exceptions=True)
CreateTasks ==
    /\ fetch_pc = "start"
    /\ series_list # << >>
    /\ fetch_pc' = "gathering"
    /\ UNCHANGED <<scan_vars, page_vars, log_vars, config_vars, import_vars, request_vars, series_list, outcomes,
                   completion, task_results, series_dict, table>>

\* _fetch_single_series for entry i. Without a fetcher it logs an error before
\* the try block. With one, data is returned after logger.info; no data logs a
\* warning inside the try, whose RecursionError the `except Exception` catches
\* only to log an error; an exception of fetch logs that error at once. A
\* logging call that raises ends the task with the exception.
FetchSingleSeries(i) ==
    IF series_list[i].source \in fetcher_registry /\ outcomes[i] = "data"
    THEN SeriesOf(i)
    ELSE Raised

\* a task ends; tasks end in any order
TaskEnds ==
    /\ fetch_pc = "gathering"
    /\ \E i \in 1 .. Len(series_list) :
           /\ task_results[i] = Pending
           /\ IF FetchSingleSeries(i) = Raised /\ ~LogRaises
              THEN /\ fetch_pc' = "exited"
                   /\ UNCHANGED <<task_results, completion>>
              ELSE /\ task_results' = [task_results EXCEPT ![i] = FetchSingleSeries(i)]
                   /\ completion' = Append(completion, i)
                   /\ fetch_pc' = fetch_pc
    /\ UNCHANGED <<scan_vars, page_vars, log_vars, config_vars, import_vars, request_vars, series_list, outcomes,
                   series_dict, table>>

\* the list asyncio.gather returns, in the order the tasks ended
GatherInCompletionOrder(by_task, ended) == [k \in 1 .. Len(ended) |-> by_task[ended[k]]]

\* the list asyncio.gather returns: the result of each awaitable, in the order
\* the awaitables were passed
Gather(by_task, ended) == by_task

\* series_dict[name] = value: a new key goes last, a key already there keeps
\* its place
SetItem(dict, name, value) ==
    IF \E k \in 1 .. Len(dict) : dict[k].name = name
    THEN [k \in 1 .. Len(dict) |->
             IF dict[k].name = name THEN [name |-> name, value |-> value] ELSE dict[k]]
    ELSE Append(dict, [name |-> name, value |-> value])

\* `for i, result in enumerate(results)`: the dictionary after the first n results
RECURSIVE CollectSeries(_, _)
CollectSeries(res, n) ==
    IF n = 0 THEN << >>
    ELSE IF res[n].kind = "series"
    THEN SetItem(CollectSeries(res, n - 1), series_list[n].name, res[n])
    ELSE CollectSeries(res, n - 1)

\* gather returns; the loop over the results logs an error for an exception
\* (`logger.error(f"Failed to fetch ...")`), which raises out of
\* fetch_all_series; otherwise the series are combined:
\* `df = pd.concat(series_dict, axis=1); df.columns = series_dict.keys()`
CombineSeries ==
    /\ fetch_pc = "gathering"
    /\ Len(completion) = Len(series_list)
    /\ LET res == Gather(task_results, completion)
       IN  IF \E i \in 1 .. Len(res) : res[i] = Raised
           THEN /\ fetch_pc' = "raised"
                /\ UNCHANGED <<series_dict, table>>
           ELSE /\ series_dict' = CollectSeries(res, Len(res))
                /\ table' = series_dict'
                /\ fetch_pc' = "returned"
    /\ UNCHANGED <<scan_vars, page_vars, log_vars, config_vars, import_vars, request_vars, series_list, outcomes,
                   completion, task_results>>

NextFetch ==
    \/ NoSeriesConfigured
    \/ CreateTasks
    \/ TaskEnds
    \/ CombineSeries

SpecFetch == InitFetch /\ [][NextFetch]_vars

\* fetch_all_series is over
FetchOver == fetch_pc \in {"returned", "raised", "exited"}

\* the entries whose fetch gave data
Succeeded ==
    {i \in 1 .. Len(series_list) :
        series_list[i].source \in fetcher_registry /\ outcomes[i] = "data"}

ColumnNames == {table[k].name : k \in 1 .. Len(table)}

\* C26: a series whose fetch raises, whose source has no fetcher or which
\* returns no data is left out; every other series is a column all the same,
\* and fetch_all_series never raises because of a failed series.
C26_FailedSeriesAreIsolated ==
    (FetchOver /\ series_list # << >>) =>
        /\ fetch_pc = "returned"
        /\ ColumnNames = {series_list[i].name : i \in Succeeded}

DistinctNames ==
    \A i, j \in 1 .. Len(series_list) : i # j => series_list[i].name # series_list[j].name

-----------------------------------------------------------------------------
(* The calendar of the aligned table *)

\* C28: consecutive rows of the aligned table are exactly one calendar day
\* apart, so that a lag of k positions means k days.
C28_AlignedRowsAreOneDayApart ==
    pc = "aligned" =>
        \A j \in 1 .. (Len(aligned.index) - 1) :
            aligned.index[j + 1] = aligned.index[j] + 1

-----------------------------------------------------------------------------
(* BaseFetcher._make_request under its tenacity decorator                    *)
(* (src/fetchers/base.py)                                                    *)

\* max_retries given to the constructor: 1 .. MaxRetries
MaxRetries == 5
\* HTTP attempts whose outcome is laid down: 1 .. MaxResponses
MaxResponses == 4

\* an attempt: a JSON answer, an aiohttp.ClientError (raise_for_status), or
\* another exception (a timeout, a body that is not JSON)
Responses == {"ok", "client_error", "other_error"}

InitRequest ==
    /\ ScanIdle
    /\ ConfigIdle
    /\ ImportIdle
    /\ FetchIdle
    /\ script = << >>
    /\ ip = 1
    /\ catches = FALSE
    /\ nested_logging \in BOOLEAN
    /\ log_file = << >>
    /\ call_depth = 0
    /\ status = "running"
    /\ exit_code = 0 - 1
    /\ max_retries \in 1 .. MaxRetries
    /\ responses \in [1 .. MaxResponses -> Responses]
    /\ attempts = 0
    /\ request_pc = "calling"
    /\ PageIdle

\* what the next attempt meets
NextResponse == responses[attempts + 1]

\* `async with session.get(...)`: response.raise_for_status() passes and
\* `return await response.json()` gives the data
AttemptSucceeds ==
    /\ request_pc = "calling"
    /\ NextResponse = "ok"
    /\ attempts' = attempts + 1
    /\ request_pc' = "returned"
    /\ UNCHANGED <<scan_vars, page_vars, log_vars, config_vars, import_vars, fetch_vars, max_retries,
                   responses>>

\* the attempt raises. `except aiohttp.ClientError` logs a warning on the way:
\* where that logging call does not raise, the process is gone
AttemptExits ==
    /\ request_pc = "calling"
    /\ NextResponse = "client_error"
    /\ ~LogRaises
    /\ attempts' = attempts + 1
    /\ request_pc' = "exited"
    /\ UNCHANGED <<scan_vars, page_vars, log_vars, config_vars, import_vars, fetch_vars, max_retries,
                   responses>>

\* the attempt ends with an exception (the ClientError, or the RecursionError
\* of the logging call in its place) and tenacity, which retries on any
\* Exception, has not reached stop_after_attempt(3): it waits and calls again
AttemptFails ==
    /\ request_pc = "calling"
    /\ NextResponse = "other_error" \/ (NextResponse = "client_error" /\ LogRaises)
    /\ attempts + 1 < StopAfterAttempt
    /\ attempts' = attempts + 1
    /\ UNCHANGED <<scan_vars, page_vars, log_vars, config_vars, import_vars, fetch_vars, max_retries,
                   responses, request_pc>>

\* the attempt ends with an exception and it was attempt number 3: tenacity
\* raises RetryError
GiveUp ==
    /\ request_pc = "calling"
    /\ NextResponse = "other_error" \/ (NextResponse = "client_error" /\ LogRaises)
    /\ attempts + 1 >= StopAfterAttempt
    /\ attempts' = attempts + 1
    /\ request_pc' = "raised"
    /\ UNCHANGED <<scan_vars, page_vars, log_vars, config_vars, import_vars, fetch_vars, max_retries,
                   responses>>

NextRequest ==
    \/ AttemptSucceeds
    \/ AttemptExits
    \/ AttemptFails
    \/ GiveUp

SpecRequest == InitRequest /\ [][NextRequest]_vars

\* C29: one call of _make_request makes at most max_retries HTTP attempts, stops
\* at the first attempt that succeeds, and raises only after the last allowed
\* attempt has failed.
C29_AtMostMaxRetriesAttempts ==
    /\ attempts <= max_retries
    /\ request_pc = "returned" =>
           /\ responses[attempts] = "ok"
           /\ \A k \in 1 .. (attempts - 1) : responses[k] # "ok"
    /\ request_pc = "raised" => attempts = max_retries

-----------------------------------------------------------------------------
(* BinanceFetcher._fetch_from_api: the loop that fetches the klines in chunks *)
(* (src/fetchers/binance.py)                                                 *)

\* timestamps: 0 .. MaxTime
MaxTime == 3

\* values of max_klines
KlineLimits == {1, 2}

\* the responses the loop is sure to end under: at most `limit` klines, each
\* with a timestamp not before the startTime asked for, in any order
ResponsesFrom(start_time, limit) ==
    UNION {[1 .. n -> start_time .. MaxTime] : n \in 0 .. limit}

\* whether a response lists its klines oldest first
Ascending(data) == \A j, k \in 1 .. Len(data) : j < k => data[j] < data[k]

Timestamps(data) == {data[k] : k \in 1 .. Len(data)}

\* a response puts a kline in all_klines that is there already
Repeats(data) ==
    \/ Timestamps(data) \cap received # {}
    \/ \E j, k \in 1 .. Len(data) : j # k /\ data[j] = data[k]

\* current_start left where the last kline received is
SameStart(data) == data[Len(data)]

\* `current_start = data[-1][0] + 1`
NextStart(data) == data[Len(data)] + 1

\* `all_klines = []; current_start = start_ts`
InitPage ==
    /\ ScanIdle
    /\ LogIdle
    /\ ConfigIdle
    /\ ImportIdle
    /\ FetchIdle
    /\ RequestIdle
    /\ end_ts \in 0 .. MaxTime
    /\ max_klines \in KlineLimits
    /\ current_start \in 0 .. MaxTime
    /\ received = {}
    /\ twice = FALSE
    /\ ascending = TRUE
    /\ last_ts = 0 - 1
    /\ pages = 0
    /\ page_pc = "loop"
    /\ exit_reason = ""

\* `while current_start < end_ts` is false
LoopEnds ==
    /\ page_pc = "loop"
    /\ ~(current_start < end_ts)
    /\ page_pc' = "done"
    /\ exit_reason' = "end_reached"
    /\ UNCHANGED <<scan_vars, log_vars, config_vars, import_vars, fetch_vars, request_vars,
                   end_ts, max_klines, current_start, received, twice, ascending, last_ts,
                   pages>>

\* `if not data: break`
EmptyResponse ==
    /\ page_pc = "loop"
    /\ current_start < end_ts
    /\ pages' = pages + 1
    /\ page_pc' = "done"
    /\ exit_reason' = "empty_response"
    /\ UNCHANGED <<scan_vars, log_vars, config_vars, import_vars, fetch_vars, request_vars,
                   end_ts, max_klines, current_start, received, twice, ascending, last_ts>>

\* `all_klines.extend(data); if len(data) < self.max_klines: break`
ShortResponse ==
    /\ page_pc = "loop"
    /\ current_start < end_ts
    /\ \E data \in ResponsesFrom(current_start, max_klines) :
           /\ data # << >>
           /\ Len(data) < max_klines
           /\ received' = received \cup Timestamps(data)
           /\ twice' = (twice \/ Repeats(data))
           /\ ascending' = (ascending /\ Ascending(data))
           /\ last_ts' = data[Len(data)]
    /\ pages' = pages + 1
    /\ page_pc' = "done"
    /\ exit_reason' = "short_response"
    /\ UNCHANGED <<scan_vars, log_vars, config_vars, import_vars, fetch_vars, request_vars,
                   end_ts, max_klines, current_start>>

\* a response of max_klines klines: `current_start = data[-1][0] + 1`, and
\* around the loop again after the rate-limit sleep
FullResponse ==
    /\ page_pc = "loop"
    /\ current_start < end_ts
    /\ \E data \in ResponsesFrom(current_start, max_klines) :
           /\ Len(data) = max_klines
           /\ received' = received \cup Timestamps(data)
           /\ twice' = (twice \/ Repeats(data))
           /\ ascending' = (ascending /\ Ascending(data))
           /\ last_ts' = data[Len(data)]
           /\ current_start' = NextStart(data)
    /\ pages' = pages + 1
    /\ UNCHANGED <<scan_vars, log_vars, config_vars, import_vars, fetch_vars, request_vars,
                   end_ts, max_klines, page_pc, exit_reason>>

\* _make_request raises: `except Exception` logs the error and the fetch is over
RequestRaises ==
    /\ page_pc = "loop"
    /\ current_start < end_ts
    /\ pages' = pages + 1
    /\ page_pc' = "failed"
    /\ exit_reason' = "exception"
    /\ UNCHANGED <<scan_vars, log_vars, config_vars, import_vars, fetch_vars, request_vars,
                   end_ts, max_klines, current_start, received, twice, ascending, last_ts>>

NextPage ==
    \/ LoopEnds
    \/ EmptyResponse
    \/ ShortResponse
    \/ FullResponse
    \/ RequestRaises

SpecPage == InitPage /\ [][NextPage]_vars

\* the coroutine goes on whenever it can: every awaited response comes, and
\* nothing else runs the loop
SpecPageFair == SpecPage /\ WF_vars(NextPage)

PageOver == page_pc \in {"done", "failed"}

====
